---- MODULE Spec2Model ----
(***************************************************************************)
(* Clock tree bring-up of embassy-imxrt (src/clocks/mod.rs, config.rs and  *)
(* the per-peripheral helpers of src/clocks.rs).                           *)
(*                                                                         *)
(* Every function of ClockOperator is an operator on a record `self`       *)
(* (config, clocks, regs, writes) that returns the record after the call   *)
(* and the call's result, so `&mut self` and the `?` early returns are     *)
(* explicit.  `init` is cut at its function calls and at its busy-wait     *)
(* loops; each piece is one action.                                        *)
(***************************************************************************)
EXTENDS Integers, Sequences, FiniteSets, TLC

VARIABLES
    CLOCKS,           \* static CLOCKS: Option<Clocks>, the published registry
    regs,             \* hardware fields the code reads back (divider registers, lock time)
    pc,               \* where the init invocation stands
    config,           \* init's `config` argument
    clk_in_select,    \* init's `clk_in_select` argument
    clocks,           \* init's local `clocks`
    pll_output_freq,  \* init's local `pll_output_freq`
    pfd_freq,         \* setup_pll_pfdN's local `pfd_freq`
    out_freq,         \* setup_clock_out's local `freq`
    writes,           \* register writes issued by the current init invocation, in order
    trace,            \* bring-up steps entered by the current init invocation, in order
    result,           \* what the last init invocation returned
    calls,            \* number of init invocations so far
    ppc,              \* where the enable / enable_and_reset invocation stands
    pcall,            \* the peripheral call in flight: entry point, peripheral, config object
    pevents,          \* hardware events of the current peripheral call, in order
    presult,          \* what the last peripheral call returned
    pcalls,           \* number of peripheral calls so far
    gates,            \* peripherals whose bus-clock gate bit is set
    released,         \* peripherals whose reset has been released
    fclksel,          \* function-clock selector register of each peripheral
    suspended,        \* locals of an init invocation that another init invocation pre-empted
    inner             \* what the pre-empting init invocation did: its result and its writes

initVars == <<pc, config, clk_in_select, clocks, pll_output_freq, pfd_freq, out_freq,
              writes, trace, result, calls>>
periphVars == <<ppc, pcall, pevents, presult, pcalls, gates, released, fclksel>>
raceVars == <<suspended, inner>>
vars == <<CLOCKS, regs, pc, config, clk_in_select, clocks, pll_output_freq, pfd_freq, out_freq,
          writes, trace,
          result, calls, ppc, pcall, pevents, presult, pcalls, gates, released, fclksel,
          suspended, inner>>

----------------------------------------------------------------------------
(* Bounds of the model *)

MaxInitCalls == 2
MaxPeriphCalls == 2

----------------------------------------------------------------------------
(* Option<T>, Result<u32, ClockError>, u32 arithmetic *)

None == <<>>
Some(x) == <<x>>
is_some(o) == o # <<>>
is_none(o) == o = <<>>
unwrap(o) == o[1]

Ok(v) == [tag |-> "Ok", reason |-> "", val |-> v]
bad_config(reason) == [tag |-> "BadConfiguration", reason |-> reason, val |-> 0]
prog_err(reason) == [tag |-> "Programming", reason |-> reason, val |-> 0]
AlreadyConfigured == [tag |-> "AlreadyConfigured", reason |-> "", val |-> 0]
\* a panic (division by zero, overflow check): the call never returns
Panic(reason) == [tag |-> "Panic", reason |-> reason, val |-> 0]
NoResult == [tag |-> "NoResult", reason |-> "", val |-> 0]

is_ok(r) == r.tag = "Ok"

\* `x as u32`: the low 32 bits, taken as two 16-bit halves
as_u32(x) == ((x \div 65536) % 65536) * 65536 + (x % 65536)

\* a * m in u32 with wrap-around, by 16-bit halves (m is a u8 widened to u32)
wrapping_mul(a, m) ==
    LET lo == (a % 65536) * m
        hi == (a \div 65536) * m + (lo \div 65536)
    IN  (hi % 65536) * 65536 + (lo % 65536)

\* TRUE when a * m does not fit u32
mul_overflows(a, m) ==
    LET lo == (a % 65536) * m
        hi == (a \div 65536) * m + (lo \div 65536)
    IN  hi >= 65536

\* (p as u64 * 18 / d as u64) as u32, computed from quotient and remainder of p by d
mul18_div(p, d) == as_u32((p \div d) * 18 + ((p % d) * 18) \div d)

----------------------------------------------------------------------------
(* Clocks, StaticClock, ClockConfig *)

F_1M_LPOSC == 1000000
F_16M_IRC == 16000000
F_32K_CLK == 32768
WORST_CASE_TICKS_PER_US == 300

StaticClock == [enabled |-> FALSE]
as_option(clk, F) == IF clk.enabled THEN Some(F) ELSE None

Clocks_default ==
    [ _1m_lposc |-> StaticClock, _16m_irc |-> StaticClock, _32k_clk |-> StaticClock,
      _32k_wake_clk |-> None, _48_60m_irc |-> None,
      main_pll_clk |-> None, dsp_pll_clk |-> None, aux0_pll_clk |-> None, aux1_pll_clk |-> None,
      clk_in |-> None, main_clk |-> 0, sys_cpu_ahb_clk |-> None,
      frg_pll_clk |-> None, clk_out |-> None ]

\* _48_60mIrcSelect::freq
freq(sel) ==
    CASE sel = "Off" -> None
      [] sel = "Mhz48" -> Some(48000000)
      [] sel = "Mhz60" -> Some(60000000)

\* `sel as u8` / `sel as u32` of the selector enums
MainPllClockSelect_bits(sel) ==
    CASE sel = "_16mIrc" -> 0
      [] sel = "ClkIn" -> 1
      [] sel = "_48_60MIrcDiv2" -> 2

MainClockSelect_bits(sel) ==
    CASE sel = "_48_60MIrcDiv4" -> 0
      [] sel = "ClkIn" -> 4
      [] sel = "_1mLposc" -> 8
      [] sel = "_48_60MIrc" -> 12
      [] sel = "_16mIrc" -> 1
      [] sel = "MainPllClk" -> 2
      [] sel = "_32kClk" -> 3

_32kWakeClkSelect_bits(sel) ==
    CASE sel = "Off" -> 7
      [] sel = "_32kClk" -> 0
      [] sel = "Lp32k" -> 1

----------------------------------------------------------------------------
(* ClockOperator: the record threaded through the bring-up functions *)

W(reg, val) == [reg |-> reg, val |-> val]
Wr(self, reg, val) == [self EXCEPT !.writes = Append(@, W(reg, val))]
R(self, res) == [self |-> self, res |-> res]

\* setup_clock_in without the record of clk_in in the registry
setup_clock_in_unrecorded(self, sel) ==
    IF sel.kind = "Xtal"
    THEN Wr(self, "SYSOSCCTL0", (IF sel.bypass THEN 1 ELSE 0) + (IF sel.low_power THEN 2 ELSE 0))
    ELSE Wr(self, sel.kind, IF sel.kind = "ClkIn2_30" THEN 5 ELSE 7)

setup_clock_in(self, sel) ==
    LET s1 == IF sel.kind = "Xtal"
              THEN Wr(self, "SYSOSCCTL0", (IF sel.bypass THEN 1 ELSE 0) + (IF sel.low_power THEN 2 ELSE 0))
              ELSE Wr(self, sel.kind, IF sel.kind = "ClkIn2_30" THEN 5 ELSE 7)
    IN  [s1 EXCEPT !.clocks.clk_in = Some(sel.freq)]

\* ensure_16mhz_irc_active without the look at the configuration
ensure_16mhz_irc_active_unchecked(self) ==
    IF ~self.clocks._16m_irc.enabled
    THEN R([Wr(self, "PDRUNCFG0.sfro_pd", 0) EXCEPT !.clocks._16m_irc.enabled = TRUE],
           Ok(F_16M_IRC))
    ELSE R(self, Ok(F_16M_IRC))

ensure_16mhz_irc_active(self) ==
    IF ~self.clocks._16m_irc.enabled
    THEN IF ~self.config.enable_16m_irc
         THEN R(self, bad_config("16m_irc not enabled but required"))
         ELSE R([Wr(self, "PDRUNCFG0.sfro_pd", 0) EXCEPT !.clocks._16m_irc.enabled = TRUE],
                Ok(F_16M_IRC))
    ELSE R(self, Ok(F_16M_IRC))

ensure_48_60mhz_irc_active(self) ==
    IF is_some(self.clocks._48_60m_irc)
    THEN R(self, Ok(unwrap(self.clocks._48_60m_irc)))
    ELSE LET s1 == Wr(self, "FFROCTL1.update", 1)
             sel == self.config._48_60m_irc_select
         IN  IF sel = "Off"
             THEN R(s1, bad_config("48/60m_irc required but disabled"))
             ELSE LET s2 == Wr(s1, "FFROCTL0.trim_range", IF sel = "Mhz48" THEN 0 ELSE 1)
                      s3 == Wr(s2, "FFROCTL1.update", 0)
                      s4 == Wr(s3, "PDRUNCFG0.ffro_pd", 0)
                      s5 == [s4 EXCEPT !.clocks._48_60m_irc = freq(sel)]
                  IN  R(s5, Ok(IF sel = "Mhz48" THEN 48000000 ELSE 60000000))

ensure_1mhz_lposc_active(self) ==
    IF ~self.clocks._1m_lposc.enabled
    THEN IF ~self.config.enable_1m_lposc
         THEN R(self, bad_config("1m_lposc disabled but required"))
         ELSE R([Wr(self, "PDRUNCFG0.lposc_pd", 0) EXCEPT !.clocks._1m_lposc.enabled = TRUE],
                Ok(F_1M_LPOSC))
    ELSE R(self, Ok(F_1M_LPOSC))

ensure_32kclk_active(self) ==
    IF ~self.clocks._32k_clk.enabled
    THEN IF ~self.config.enable_32k_clk
         THEN R(self, bad_config("32k_clk required but not enabled"))
         ELSE R([Wr(self, "OSC32KHZCTL0.ena32khz", 1) EXCEPT !.clocks._32k_clk.enabled = TRUE],
                Ok(F_32K_CLK))
    ELSE R(self, Ok(F_32K_CLK))

ensure_main_pll_clk_active(self) ==
    IF is_some(self.clocks.main_pll_clk)
    THEN R(self, Ok(unwrap(self.clocks.main_pll_clk)))
    ELSE R(self, bad_config("main_pll_clk required but disabled"))

ensure_clk_in_active(self) ==
    IF is_some(self.clocks.clk_in)
    THEN R(self, Ok(unwrap(self.clocks.clk_in)))
    ELSE R(self, bad_config("clk_in required but not configured"))

\* Clocks::ensure_aux0_pll, Clocks::ensure_dsp_pll (read-only views of the registry)
ensure_aux0_pll(c) ==
    IF is_some(c.aux0_pll_clk) THEN Ok(unwrap(c.aux0_pll_clk))
    ELSE bad_config("aux0 pll needed but not enabled")

ensure_dsp_pll(c) ==
    IF is_some(c.dsp_pll_clk) THEN Ok(unwrap(c.dsp_pll_clk))
    ELSE bad_config("dsp pll needed but not enabled")

ensure_1m_lposc(c) ==
    IF c._1m_lposc.enabled THEN Ok(F_1M_LPOSC)
    ELSE bad_config("1m_irc/lposc needed but not enabled")

\* the multiplier range with its upper end one too far
multiplier_in_range_upto23(m) == m >= 16 /\ m <= 23

\* line 470: (16..=22).contains(&sel.multiplier)
multiplier_in_range(m) == m >= 16 /\ m <= 22

\* setup_main_pll without its power-down
power_down_pll_skipped(self) == self

\* lines 447-451: the LDO and analog power domains of the PLL are switched off
power_down_pll(self) == Wr(self, "PDRUNCFG0_SET.syspll_pd", 1)

\* the lock sequence with holdringoff released right after power-up and one delay
pll_power_up_and_lock_one_delay(self) ==
    LET lock_time_div_2 == self.regs.syspll0locktimediv2
        s6 == Wr(self, "PDRUNCFG0_CLR.syspll_pd", 1)
        s8 == Wr(s6, "SYSPLL0CTL0.holdringoff_ena", 0)
    IN  Wr(s8, "delay", WORST_CASE_TICKS_PER_US * lock_time_div_2)

\* lines 505-520: power-up, first lock delay, holdringoff off, second lock delay
pll_power_up_and_lock(self) ==
    LET lock_time_div_2 == self.regs.syspll0locktimediv2
        s6 == Wr(self, "PDRUNCFG0_CLR.syspll_pd", 1)
        s7 == Wr(s6, "delay", WORST_CASE_TICKS_PER_US * lock_time_div_2)
        s8 == Wr(s7, "SYSPLL0CTL0.holdringoff_ena", 0)
    IN  Wr(s8, "delay", WORST_CASE_TICKS_PER_US * lock_time_div_2)

\* setup_main_pll returns Result<Option<(u32, MainPll)>, _>: res.val is the core
\* frequency and `pll` says whether the Option is Some.  overflow_checks is the
\* build's setting for the u32 multiplication of line 523.
setup_main_pll(self, sel, overflow_checks) ==
    LET s0 == power_down_pll(self)
    IN  IF is_none(sel)
        THEN [self |-> Wr(s0, "SYSPLL0CLKSEL", 7), res |-> Ok(0), pll |-> FALSE]
        ELSE
        LET mp == unwrap(sel)
        IN  IF ~multiplier_in_range(mp.multiplier)
            THEN [self |-> s0, res |-> bad_config("main pll multiplier out of allowed range"), pll |-> FALSE]
            ELSE
            LET inp == CASE mp.clock_select = "_16mIrc" -> ensure_16mhz_irc_active(s0)
                         [] mp.clock_select = "ClkIn" ->
                                IF is_some(s0.clocks.clk_in)
                                THEN R(s0, Ok(unwrap(s0.clocks.clk_in)))
                                ELSE R(s0, prog_err("We should have set clk_in by now"))
                         [] mp.clock_select = "_48_60MIrcDiv2" -> ensure_48_60mhz_irc_active(s0)
            IN  IF ~is_ok(inp.res)
                THEN [self |-> inp.self, res |-> inp.res, pll |-> FALSE]
                ELSE
                LET pll_input_freq == inp.res.val
                    s1 == Wr(inp.self, "SYSPLL0CLKSEL", MainPllClockSelect_bits(mp.clock_select))
                    s2 == Wr(s1, "SYSPLL0NUM", 0)
                    s3 == Wr(s2, "SYSPLL0DENOM", 1)
                    s4 == Wr(s3, "SYSPLL0CTL0.mult", mp.multiplier)
                    s5 == Wr(s4, "SYSPLL0CTL0.holdringoff_ena", 1)
                    s9 == pll_power_up_and_lock(s5)
                IN  IF overflow_checks /\ mul_overflows(pll_input_freq, mp.multiplier)
                    THEN [self |-> s9, res |-> Panic("attempt to multiply with overflow"), pll |-> FALSE]
                    ELSE [self |-> s9, res |-> Ok(wrapping_mul(pll_input_freq, mp.multiplier)), pll |-> TRUE]

----------------------------------------------------------------------------
(* The four PFD pipelines: setup_pll_pfd0..3 and disable_pll_pfd0..3 are four *)
(* copies of the same text; n selects the copy.                               *)

pfd_div(mp, n) ==
    CASE n = 0 -> mp.pfd0_div [] n = 1 -> mp.pfd1_div
      [] n = 2 -> mp.pfd2_div [] n = 3 -> mp.pfd3_div

pll_clock_divider(mp, n) ==
    CASE n = 0 -> mp.main_pll_clock_divider [] n = 1 -> mp.dsp_pll_clock_divider
      [] n = 2 -> mp.aux0_pll_clock_divider [] n = 3 -> mp.aux1_pll_clock_divider

pll_clk(c, n) ==
    CASE n = 0 -> c.main_pll_clk [] n = 1 -> c.dsp_pll_clk
      [] n = 2 -> c.aux0_pll_clk [] n = 3 -> c.aux1_pll_clk

\* the registry fields of the PLL clocks with PFD0's record also landing in dsp_pll_clk
set_pll_clk_shared(self, n, v) ==
    [self EXCEPT !.clocks.main_pll_clk = IF n = 0 THEN v ELSE @,
                 !.clocks.dsp_pll_clk = IF n <= 1 THEN v ELSE @,
                 !.clocks.aux0_pll_clk = IF n = 2 THEN v ELSE @,
                 !.clocks.aux1_pll_clk = IF n = 3 THEN v ELSE @]

set_pll_clk(self, n, v) ==
    CASE n = 0 -> [self EXCEPT !.clocks.main_pll_clk = v]
      [] n = 1 -> [self EXCEPT !.clocks.dsp_pll_clk = v]
      [] n = 2 -> [self EXCEPT !.clocks.aux0_pll_clk = v]
      [] n = 3 -> [self EXCEPT !.clocks.aux1_pll_clk = v]

\* the div field (written together with reset) and the halt bit of the output divider
pllclkdiv(n) ==
    CASE n = 0 -> "MAINPLLCLKDIV.div" [] n = 1 -> "DSPPLLCLKDIV.div"
      [] n = 2 -> "AUX0PLLCLKDIV.div" [] n = 3 -> "AUX1PLLCLKDIV.div"

pllclkdiv_halt(n) ==
    CASE n = 0 -> "MAINPLLCLKDIV.halt" [] n = 1 -> "DSPPLLCLKDIV.halt"
      [] n = 2 -> "AUX0PLLCLKDIV.halt" [] n = 3 -> "AUX1PLLCLKDIV.halt"

pfd_field(n) ==
    CASE n = 0 -> "SYSPLL0PFD.pfd0" [] n = 1 -> "SYSPLL0PFD.pfd1"
      [] n = 2 -> "SYSPLL0PFD.pfd2" [] n = 3 -> "SYSPLL0PFD.pfd3"

pfd_clkgate(n) ==
    CASE n = 0 -> "SYSPLL0PFD.pfd0_clkgate" [] n = 1 -> "SYSPLL0PFD.pfd1_clkgate"
      [] n = 2 -> "SYSPLL0PFD.pfd2_clkgate" [] n = 3 -> "SYSPLL0PFD.pfd3_clkgate"

pfd_clkrdy(n) ==
    CASE n = 0 -> "SYSPLL0PFD.pfd0_clkrdy" [] n = 1 -> "SYSPLL0PFD.pfd1_clkrdy"
      [] n = 2 -> "SYSPLL0PFD.pfd2_clkrdy" [] n = 3 -> "SYSPLL0PFD.pfd3_clkrdy"

pfd_div_reason(n) ==
    CASE n = 0 -> "pfd0_div is out of the allowed range"
      [] n = 1 -> "pfd1_div is out of the allowed range"
      [] n = 2 -> "pfd2_div is out of the allowed range"
      [] n = 3 -> "pfd3_div is out of the allowed range"

pll_clock_divider_reason(n) ==
    CASE n = 0 -> "main_pll_clock_divider is out of the allowed range"
      [] n = 1 -> "dsp_pll_clock_divider is out of the allowed range"
      [] n = 2 -> "aux0_pll_clock_divider is out of the allowed range"
      [] n = 3 -> "aux1_pll_clock_divider is out of the allowed range"

\* the PFD divider range with its upper end one too far
pfd_div_in_range_upto36(d) == d >= 12 /\ d <= 36

\* lines 638, 688, 738, 787: (12..=35).contains(&div)
pfd_div_in_range(d) == d >= 12 /\ d <= 35

\* lines 654, 704, 753, 803: (1..=256).contains(&main_pll.*_pll_clock_divider)
pll_clock_divider_in_range(cd) == cd >= 1 /\ cd <= 256

\* disable_pll_pfdN without its clock-gate write
disable_pll_pfd_halt_only(self, n) ==
    set_pll_clk(Wr(self, pllclkdiv_halt(n), 1), n, None)

disable_pll_pfd(self, n) ==
    LET s1 == Wr(self, pllclkdiv_halt(n), 1)
        s2 == Wr(s1, pfd_clkgate(n), 1)
    IN  set_pll_clk(s2, n, None)

\* setup_pll_pfdN up to its first busy-wait (the clkrdy loop); `wait` says whether
\* the function got that far
setup_pll_pfd_program(self, n, main_pll) ==
    LET d == pfd_div(main_pll, n)
    IN  IF is_none(d)
        THEN [self |-> disable_pll_pfd(self, n), res |-> Ok(0), wait |-> FALSE]
        ELSE IF ~pfd_div_in_range(unwrap(d))
        THEN [self |-> self, res |-> bad_config(pfd_div_reason(n)), wait |-> FALSE]
        ELSE LET s1 == Wr(self, pfd_field(n), unwrap(d))
                 s2 == Wr(s1, pfd_clkrdy(n), 1)
                 s3 == Wr(s2, pfd_clkgate(n), 0)
             IN  [self |-> s3, res |-> Ok(0), wait |-> TRUE]

\* from the end of the clkrdy loop to the reqflag loop; res.val is pfd_freq
setup_pll_pfd_divider(self, n, main_pll, pll_freq) ==
    LET pfd_frequency == mul18_div(pll_freq, unwrap(pfd_div(main_pll, n)))
        cd == pll_clock_divider(main_pll, n)
    IN  IF ~pll_clock_divider_in_range(cd)
        THEN R(self, bad_config(pll_clock_divider_reason(n)))
        ELSE LET s1 == Wr(self, pllclkdiv_halt(n), 1)
                 s2 == Wr(s1, pllclkdiv(n), (cd - 1) % 256)
             IN  R(s2, Ok(pfd_frequency))

\* the PFD clock recorded as pfd_freq divided by the output divider itself
setup_pll_pfd_record_by_divider(self, n, main_pll, pfd_frequency) ==
    LET cd == pll_clock_divider(main_pll, n)
    IN  R(set_pll_clk(self, n, Some(pfd_frequency \div cd)), Ok(0))

\* from the end of the reqflag loop to the return
setup_pll_pfd_record(self, n, main_pll, pfd_frequency) ==
    LET cd == pll_clock_divider(main_pll, n)
    IN  IF cd - 1 = 0
        THEN R(self, Panic("attempt to divide by zero"))
        ELSE R(set_pll_clk(self, n, Some(pfd_frequency \div (cd - 1))), Ok(0))

----------------------------------------------------------------------------
(* Main clock, system clock, FRG PLL divider, wake clock *)

\* setup_main_clock with the MainPllClk arm resolved through the registry
setup_main_clock_pll_wired(self) ==
    LET sel == self.config.main_clock_select
        src == CASE sel = "_48_60MIrcDiv4" ->
                        LET r == ensure_48_60mhz_irc_active(self)
                        IN  IF is_ok(r.res) THEN R(r.self, Ok(r.res.val \div 4)) ELSE r
                 [] sel = "ClkIn" ->
                        R(self, bad_config("Main clock uses clk_in, but clk_in is not active"))
                 [] sel = "_1mLposc" -> ensure_1mhz_lposc_active(self)
                 [] sel = "_48_60MIrc" -> ensure_48_60mhz_irc_active(self)
                 [] sel = "_16mIrc" -> ensure_16mhz_irc_active(self)
                 [] sel = "MainPllClk" -> ensure_main_pll_clk_active(self)
                 [] sel = "_32kClk" -> ensure_32kclk_active(self)
    IN  IF ~is_ok(src.res)
        THEN src
        ELSE LET s1 == [src.self EXCEPT !.clocks.main_clk = src.res.val]
                 s2 == Wr(s1, "MAINCLKSELA", (MainClockSelect_bits(sel) \div 4) % 4)
                 s3 == Wr(s2, "MAINCLKSELB", MainClockSelect_bits(sel) % 4)
             IN  R(s3, Ok(0))

setup_main_clock(self) ==
    LET sel == self.config.main_clock_select
        src == CASE sel = "_48_60MIrcDiv4" ->
                        LET r == ensure_48_60mhz_irc_active(self)
                        IN  IF is_ok(r.res) THEN R(r.self, Ok(r.res.val \div 4)) ELSE r
                 [] sel = "ClkIn" ->
                        R(self, bad_config("Main clock uses clk_in, but clk_in is not active"))
                 [] sel = "_1mLposc" -> ensure_1mhz_lposc_active(self)
                 [] sel = "_48_60MIrc" -> ensure_48_60mhz_irc_active(self)
                 [] sel = "_16mIrc" -> ensure_16mhz_irc_active(self)
                 [] sel = "MainPllClk" ->
                        R(self, bad_config("Main clock uses main_pll_clk, but main_pll_clk is not active"))
                 [] sel = "_32kClk" -> ensure_32kclk_active(self)
    IN  IF ~is_ok(src.res)
        THEN src
        ELSE LET s1 == [src.self EXCEPT !.clocks.main_clk = src.res.val]
                 s2 == Wr(s1, "MAINCLKSELA", (MainClockSelect_bits(sel) \div 4) % 4)
                 s3 == Wr(s2, "MAINCLKSELB", MainClockSelect_bits(sel) % 4)
             IN  R(s3, Ok(0))

\* setup_system_clock_div without the comparison of line 602
setup_system_clock_div_always_write(self) ==
    IF self.clocks.main_clk = 0
    THEN [self |-> self, res |-> prog_err("main_clk not configured"), wait |-> FALSE]
    ELSE [self |-> [Wr(self, "SYSCPUAHBCLKDIV", self.config.sys_cpu_ahb_div)
                       EXCEPT !.regs.syscpuahbclkdiv = self.config.sys_cpu_ahb_div],
          res |-> Ok(0), wait |-> TRUE]

\* setup_system_clock up to its reqflag loop; `wait` says whether the loop is entered
setup_system_clock_div(self) ==
    LET current_div == self.regs.syscpuahbclkdiv
    IN  IF current_div # self.config.sys_cpu_ahb_div
        THEN IF self.clocks.main_clk = 0
             THEN [self |-> self, res |-> prog_err("main_clk not configured"), wait |-> FALSE]
             ELSE [self |-> [Wr(self, "SYSCPUAHBCLKDIV", self.config.sys_cpu_ahb_div)
                                EXCEPT !.regs.syscpuahbclkdiv = self.config.sys_cpu_ahb_div],
                   res |-> Ok(0), wait |-> TRUE]
        ELSE [self |-> self, res |-> Ok(0), wait |-> FALSE]

\* the system clock recorded without the CPU clock divider
setup_system_clock_record_undivided(self) ==
    [self EXCEPT !.clocks.sys_cpu_ahb_clk = Some(self.clocks.main_clk)]

\* line 613
setup_system_clock_record(self) ==
    [self EXCEPT !.clocks.sys_cpu_ahb_clk =
        Some(self.clocks.main_clk \div (self.config.sys_cpu_ahb_div + 1))]

\* setup_frg_pll_div up to its reqflag loop; `done` says the function returned at line 868
setup_frg_pll_div_div(self) ==
    IF is_none(self.config.frg_clk_pll_div)
    THEN [self |-> self, res |-> Ok(0), wait |-> FALSE, done |-> TRUE]
    ELSE LET div == unwrap(self.config.frg_clk_pll_div)
             pll == ensure_main_pll_clk_active(self)
         IN  IF ~is_ok(pll.res)
             THEN [self |-> pll.self, res |-> pll.res, wait |-> FALSE, done |-> TRUE]
             ELSE IF self.regs.frgpllclkdiv # div
             THEN [self |-> [Wr(self, "FRGPLLCLKDIV", div) EXCEPT !.regs.frgpllclkdiv = div],
                   res |-> pll.res, wait |-> TRUE, done |-> FALSE]
             ELSE [self |-> self, res |-> pll.res, wait |-> FALSE, done |-> FALSE]

\* the FRG PLL clock recorded without its divider
setup_frg_pll_div_record_undivided(self) ==
    [self EXCEPT !.clocks.frg_pll_clk = Some(unwrap(self.clocks.main_pll_clk))]

\* line 876
setup_frg_pll_div_record(self) ==
    [self EXCEPT !.clocks.frg_pll_clk =
        Some(unwrap(self.clocks.main_pll_clk) \div (unwrap(self.config.frg_clk_pll_div) + 1))]

\* setup_32k_wake_clk with the mux written before the source is resolved
setup_32k_wake_clk_mux_first(self) ==
    LET sel == self.config._32k_wake_clk_select
        s0 == Wr(self, "WAKECLK32KHZSEL", _32kWakeClkSelect_bits(sel))
        src == CASE sel = "Off" -> R(s0, Ok(0))
                 [] sel = "_32kClk" -> ensure_32kclk_active(s0)
                 [] sel = "Lp32k" ->
                        LET r == ensure_1mhz_lposc_active(s0)
                        IN  IF is_ok(r.res) THEN R(r.self, Ok(r.res.val \div 32)) ELSE r
    IN  IF ~is_ok(src.res)
        THEN src
        ELSE R([src.self EXCEPT !.clocks._32k_wake_clk =
                    IF src.res.val # 0 THEN Some(src.res.val) ELSE None],
               src.res)

setup_32k_wake_clk(self) ==
    LET sel == self.config._32k_wake_clk_select
        src == CASE sel = "Off" -> R(self, Ok(0))
                 [] sel = "_32kClk" -> ensure_32kclk_active(self)
                 [] sel = "Lp32k" ->
                        LET r == ensure_1mhz_lposc_active(self)
                        IN  IF is_ok(r.res) THEN R(r.self, Ok(r.res.val \div 32)) ELSE r
    IN  IF ~is_ok(src.res)
        THEN src
        ELSE LET s1 == Wr(src.self, "WAKECLK32KHZSEL", _32kWakeClkSelect_bits(sel))
             IN  R([s1 EXCEPT !.clocks._32k_wake_clk =
                        IF src.res.val # 0 THEN Some(src.res.val) ELSE None],
                   src.res)

----------------------------------------------------------------------------
(* Clock-out *)

\* the `match self.config.clk_out_select` of setup_clock_out: `done` says the arm
\* returned from the function (`return Err(..)`, `return Ok(0)` or a `?`)
clk_out_source(self) ==
    LET sel == self.config.clk_out_select
        via0(r, sel0) ==
            IF ~is_ok(r.res)
            THEN [self |-> r.self, res |-> r.res, done |-> TRUE]
            ELSE [self |-> Wr(Wr(r.self, "CLKOUTSEL0", sel0), "CLKOUTSEL1", 0),
                  res |-> r.res, done |-> FALSE]
        via1(r, sel1) ==
            IF ~is_ok(r.res)
            THEN [self |-> r.self, res |-> r.res, done |-> TRUE]
            ELSE [self |-> Wr(r.self, "CLKOUTSEL1", sel1), res |-> r.res, done |-> FALSE]
    IN  CASE sel = "M16Irc" -> via0(ensure_16mhz_irc_active(self), 0)
          [] sel = "ClkIn" -> via0(ensure_clk_in_active(self), 1)
          [] sel = "M1Lposc" -> via0(ensure_1mhz_lposc_active(self), 2)
          [] sel = "M4860Irc" -> via0(ensure_48_60mhz_irc_active(self), 3)
          [] sel = "MainClk" -> via0(R(self, Ok(self.clocks.main_clk)), 4)
          [] sel = "DspMainClk" ->
                [self |-> self, res |-> prog_err("dsp_main_clk not implemented"), done |-> TRUE]
          [] sel = "MainPllClk" -> via1(ensure_main_pll_clk_active(self), 1)
          [] sel = "Aux0PllClk" -> via1(R(self, ensure_aux0_pll(self.clocks)), 2)
          [] sel = "DspPllClk" -> via1(R(self, ensure_dsp_pll(self.clocks)), 3)
          [] sel = "Aux1PllClk" -> via1(R(self, ensure_aux0_pll(self.clocks)), 2)
          [] sel = "AudioPllClk" ->
                [self |-> self, res |-> prog_err("audio_pll_clk not implemented"), done |-> TRUE]
          [] sel = "K32Clk" -> via1(ensure_32kclk_active(self), 6)
          [] sel = "None" ->
                [self |-> Wr(self, "CLKOUTSEL1", 7), res |-> Ok(0), done |-> TRUE]

\* setup_clock_out up to its reqflag loop; res.val is the local `freq`
setup_clock_out_div(self) ==
    IF is_none(self.config.clk_out_div)
    THEN [self |-> [Wr(self, "CLKOUTSEL1", 7) EXCEPT !.clocks.clk_out = None],
          res |-> Ok(0), done |-> TRUE]
    ELSE LET src == clk_out_source(self)
         IN  IF src.done
             THEN src
             ELSE LET s1 == Wr(src.self, "CLKOUTDIV.halt", 1)
                      s2 == Wr(s1, "CLKOUTDIV.div", unwrap(self.config.clk_out_div))
                      s3 == Wr(s2, "CLKOUTDIV.halt", 0)
                  IN  [self |-> s3, res |-> src.res, done |-> FALSE]

\* lines 1017-1020
setup_clock_out_record(self, f) ==
    LET fr == f \div (1 + unwrap(self.config.clk_out_div))
    IN  R([self EXCEPT !.clocks.clk_out = Some(fr)], Ok(fr))

----------------------------------------------------------------------------
(* Per-peripheral config objects (SPConfHelper::post_enable_config).  The     *)
(* result carries the selector writes the call made: `sel` is a sequence of   *)
(* W(register, value).                                                        *)

PR(res, sel) == [res |-> res, sel |-> sel]

NoConfig_post_enable_config(cfg, c) == PR(Ok(0), <<>>)

WdtConfig_post_enable_config(cfg, c) ==
    LET fr == CASE cfg.source = "LpOsc1m" -> ensure_1m_lposc(c)
                [] cfg.source = "None" -> Ok(0)
        v == IF cfg.source = "LpOsc1m" THEN 0 ELSE 7
    IN  IF ~is_ok(fr)
        THEN PR(fr, <<>>)
        ELSE CASE cfg.instance = "Wwdt0" -> PR(fr, <<W("WDT0FCLKSEL", v)>>)
               [] cfg.instance = "Wwdt1" -> PR(fr, <<W("WDT1FCLKSEL", v)>>)

ensure_16m_sfro(c) ==
    IF c._16m_irc.enabled THEN Ok(F_16M_IRC)
    ELSE bad_config("16m_irc/sfro needed but not enabled")

ensure_48_60_ffro(c) ==
    IF is_some(c._48_60m_irc) THEN Ok(unwrap(c._48_60m_irc))
    ELSE bad_config("48/60m_irc/ffro needed but not enabled")

CTimerSel_bits(sel) ==
    CASE sel = "MainClk" -> 0 [] sel = "SfroClk" -> 1 [] sel = "FfroClk" -> 2
      [] sel = "AudioPllClk" -> 3 [] sel = "MasterClk" -> 4 [] sel = "Lposc" -> 5
      [] sel = "None" -> 7

ct32bitfclksel(instance) ==
    CASE instance = 0 -> "CT32BIT0FCLKSEL" [] instance = 1 -> "CT32BIT1FCLKSEL"
      [] instance = 2 -> "CT32BIT2FCLKSEL" [] instance = 3 -> "CT32BIT3FCLKSEL"
      [] instance = 4 -> "CT32BIT4FCLKSEL"

CtimerConfig_post_enable_config(cfg, c) ==
    LET fr == CASE cfg.source = "MainClk" -> Ok(c.main_clk)
                [] cfg.source = "SfroClk" -> ensure_16m_sfro(c)
                [] cfg.source = "FfroClk" -> ensure_48_60_ffro(c)
                [] cfg.source = "AudioPllClk" -> prog_err("not implemented")
                [] cfg.source = "MasterClk" -> prog_err("not implemented")
                [] cfg.source = "Lposc" -> ensure_1m_lposc(c)
                [] cfg.source = "None" -> Ok(0)
    IN  IF ~is_ok(fr)
        THEN PR(fr, <<>>)
        ELSE PR(fr, <<W(ct32bitfclksel(cfg.instance), CTimerSel_bits(cfg.source))>>)

\* Clocks::ensure_frg_pll
ensure_frg_pll(c) ==
    IF is_some(c.frg_pll_clk) THEN Ok(unwrap(c.frg_pll_clk))
    ELSE bad_config("frg pll needed but not enabled")

FlexcommFrgSel_bits(sel) ==
    CASE sel = "MainClk" -> 0 [] sel = "FrgPllClk" -> 1 [] sel = "SfroClk" -> 2
      [] sel = "FfroClk" -> 3 [] sel = "None" -> 7

FlexcommFclkSel_bits(sel) ==
    CASE sel = "SfroClk" -> 0 [] sel = "FfroClk" -> 1 [] sel = "AudioPllClk" -> 2
      [] sel = "MasterClk" -> 3 [] sel = "FcnFrgClk" -> 4 [] sel = "None" -> 7

\* the FRG output with the divider taken as 255 + mult
frg_fout_div255(f, mult) ==
    LET fdiv == mult + 255
    IN  as_u32(256 * (f \div fdiv) + (256 * (f % fdiv)) \div fdiv)

\* lines 1223-1227 (1301-1305, 1378-1382): (freq as u64 * 256 / (mult as u64 + 256)) as u32,
\* computed from the quotient and the remainder of freq by fdiv
frg_fout(f, mult) ==
    LET fdiv == mult + 256
    IN  as_u32(256 * (f \div fdiv) + (256 * (f % fdiv)) \div fdiv)

\* the registers of one Flexcomm: FRG clock select, FRG control, function clock select
flexcomm_regs(unit) ==
    CASE unit = 14 -> [frgclksel |-> "FRG14CLKSEL", frgctl |-> "FRG14CTL", fcfclksel |-> "FC14FCLKSEL"]
      [] unit = 15 -> [frgclksel |-> "FRG15CLKSEL", frgctl |-> "FRG15CTL", fcfclksel |-> "FC15FCLKSEL"]
      [] unit = 0 -> [frgclksel |-> "FLEXCOMM0.FRGCLKSEL", frgctl |-> "FLEXCOMM0.FRGCTL",
                      fcfclksel |-> "FLEXCOMM0.FCFCLKSEL"]
      [] unit = 1 -> [frgclksel |-> "FLEXCOMM1.FRGCLKSEL", frgctl |-> "FLEXCOMM1.FRGCTL",
                      fcfclksel |-> "FLEXCOMM1.FCFCLKSEL"]

\* the body the three Flexcomm config objects share, on the registers of `unit`
flexcomm_post_enable_config(cfg, c, unit) ==
    LET r == flexcomm_regs(unit)
        frg_in == CASE cfg.frg_clk_sel = "MainClk" -> Ok(c.main_clk)
                    [] cfg.frg_clk_sel = "FrgPllClk" -> ensure_frg_pll(c)
                    [] cfg.frg_clk_sel = "SfroClk" -> ensure_16m_sfro(c)
                    [] cfg.frg_clk_sel = "FfroClk" -> ensure_48_60_ffro(c)
                    [] cfg.frg_clk_sel = "None" -> Ok(0)
        frg_writes == << W(r.frgclksel, FlexcommFrgSel_bits(cfg.frg_clk_sel)),
                         W(r.frgctl \o ".mult", cfg.mult), W(r.frgctl \o ".div", 255) >>
        fclk == W(r.fcfclksel, FlexcommFclkSel_bits(cfg.fc_clk_sel))
    IN  CASE cfg.fc_clk_sel = "FcnFrgClk" ->
                IF ~is_ok(frg_in)
                THEN PR(frg_in, <<>>)
                ELSE PR(Ok(frg_fout(frg_in.val, cfg.mult)), frg_writes \o <<fclk>>)
          [] cfg.fc_clk_sel = "SfroClk" ->
                IF is_ok(ensure_16m_sfro(c))
                THEN PR(ensure_16m_sfro(c), <<fclk>>) ELSE PR(ensure_16m_sfro(c), <<>>)
          [] cfg.fc_clk_sel = "FfroClk" ->
                IF is_ok(ensure_48_60_ffro(c))
                THEN PR(ensure_48_60_ffro(c), <<fclk>>) ELSE PR(ensure_48_60_ffro(c), <<>>)
          [] cfg.fc_clk_sel = "AudioPllClk" -> PR(prog_err("not implemented"), <<>>)
          [] cfg.fc_clk_sel = "MasterClk" -> PR(prog_err("not implemented"), <<>>)
          [] cfg.fc_clk_sel = "None" -> PR(Ok(0), <<fclk>>)

FlexcommConfig_post_enable_config(cfg, c) == flexcomm_post_enable_config(cfg, c, cfg.instance)

FlexcommConfig14_post_enable_config(cfg, c) == flexcomm_post_enable_config(cfg, c, 14)

FlexcommConfig15_post_enable_config(cfg, c) == flexcomm_post_enable_config(cfg, c, 15)

\* Clocks::ensure_aux1_pll
ensure_aux1_pll(c) ==
    IF is_some(c.aux1_pll_clk) THEN Ok(unwrap(c.aux1_pll_clk))
    ELSE bad_config("aux1 pll needed but not enabled")

\* Clocks::ensure_xtal_in
ensure_xtal_in(c) ==
    IF is_some(c.clk_in) THEN Ok(unwrap(c.clk_in))
    ELSE bad_config("xtal_in needed but not enabled")

AdcSel0_bits(sel) ==
    CASE sel = "SfroClk" -> 0 [] sel = "XtalinClk" -> 1 [] sel = "Lposc" -> 2
      [] sel = "FfroClk" -> 3 [] sel = "None" -> 7

AdcSel1_bits(sel) ==
    CASE sel = "Adc0fclksel0MuxOut" -> 0 [] sel = "Syspll0MainClk" -> 1
      [] sel = "Syspll0Aux0PllClock" -> 2 [] sel = "Syspll0Aux1PllClock" -> 3
      [] sel = "None" -> 7

\* the halt, div and un-halt writes of a function-clock divider; the reqflag
\* loop that follows them runs inside the critical section of enable
fclkdiv_writes(reg, div) ==
    << W(reg \o ".halt", 1), W(reg \o ".div", div), W(reg \o ".halt", 0) >>

\* AdcConfig::post_enable_config without the write of lines 1436-1438
AdcConfig_post_enable_config_sel0_kept(cfg, c) ==
    LET fr == CASE cfg.sel1 = "Adc0fclksel0MuxOut" ->
                    ( CASE cfg.sel0 = "SfroClk" -> ensure_16m_sfro(c)
                        [] cfg.sel0 = "XtalinClk" -> ensure_xtal_in(c)
                        [] cfg.sel0 = "Lposc" -> ensure_1m_lposc(c)
                        [] cfg.sel0 = "FfroClk" -> ensure_48_60_ffro(c)
                        [] cfg.sel0 = "None" -> Ok(0) )
                [] cfg.sel1 = "Syspll0MainClk" -> Ok(c.main_clk)
                [] cfg.sel1 = "Syspll0Aux0PllClock" -> ensure_aux0_pll(c)
                [] cfg.sel1 = "Syspll0Aux1PllClock" -> ensure_aux1_pll(c)
                [] cfg.sel1 = "None" -> Ok(0)
        sel0 == IF cfg.sel1 = "Adc0fclksel0MuxOut"
                THEN <<W("ADC0FCLKSEL0", AdcSel0_bits(cfg.sel0))>> ELSE <<>>
    IN  IF ~is_ok(fr)
        THEN PR(fr, <<>>)
        ELSE PR(Ok(fr.val \div (1 + cfg.div)),
                sel0 \o << W("ADC0FCLKSEL1", AdcSel1_bits(cfg.sel1)) >>
                    \o fclkdiv_writes("ADC0FCLKDIV", cfg.div))

AdcConfig_post_enable_config(cfg, c) ==
    LET fr == CASE cfg.sel1 = "Adc0fclksel0MuxOut" ->
                    ( CASE cfg.sel0 = "SfroClk" -> ensure_16m_sfro(c)
                        [] cfg.sel0 = "XtalinClk" -> ensure_xtal_in(c)
                        [] cfg.sel0 = "Lposc" -> ensure_1m_lposc(c)
                        [] cfg.sel0 = "FfroClk" -> ensure_48_60_ffro(c)
                        [] cfg.sel0 = "None" -> Ok(0) )
                [] cfg.sel1 = "Syspll0MainClk" -> Ok(c.main_clk)
                [] cfg.sel1 = "Syspll0Aux0PllClock" -> ensure_aux0_pll(c)
                [] cfg.sel1 = "Syspll0Aux1PllClock" -> ensure_aux1_pll(c)
                [] cfg.sel1 = "None" -> Ok(0)
        sel0 == IF cfg.sel1 = "Adc0fclksel0MuxOut" THEN AdcSel0_bits(cfg.sel0) ELSE 7
    IN  IF ~is_ok(fr)
        THEN PR(fr, <<>>)
        ELSE PR(Ok(fr.val \div (1 + cfg.div)),
                << W("ADC0FCLKSEL0", sel0), W("ADC0FCLKSEL1", AdcSel1_bits(cfg.sel1)) >>
                    \o fclkdiv_writes("ADC0FCLKDIV", cfg.div))

SCTClockSource_bits(source) ==
    CASE source = "Main" -> 0 [] source = "MainPLL" -> 1 [] source = "AUX0PLL" -> 2
      [] source = "FFRO" -> 3 [] source = "AUX1PLL" -> 4 [] source = "AudioPLL" -> 5
      [] source = "None" -> 7

\* Option::ok_or
ok_or(opt, err) == IF is_some(opt) THEN Ok(unwrap(opt)) ELSE err

Sct0Config_post_enable_config(cfg, c) ==
    LET fr == CASE cfg.source = "Main" -> Ok(c.main_clk)
                [] cfg.source = "MainPLL" -> ok_or(c.main_pll_clk, bad_config("main_pll needed"))
                [] cfg.source = "AUX0PLL" -> ok_or(c.aux0_pll_clk, bad_config("aux0pll needed"))
                [] cfg.source = "FFRO" -> ok_or(c._48_60m_irc, bad_config("ffro needed"))
                [] cfg.source = "AUX1PLL" -> ok_or(c.aux1_pll_clk, bad_config("aux1pll needed"))
                [] cfg.source = "AudioPLL" -> prog_err("audio pll not yet supported")
                [] cfg.source = "None" -> Ok(0)
        sel == W("SCTFCLKSEL", SCTClockSource_bits(cfg.source))
    IN  IF ~is_ok(fr)
        THEN PR(fr, <<>>)
        ELSE IF cfg.source # "None"
        THEN PR(Ok(fr.val \div (1 + cfg.div)), <<sel>> \o fclkdiv_writes("SCTFCLKDIV", cfg.div))
        ELSE PR(fr, <<sel>>)

\* dispatch on T::SysconPeriphConfig
post_enable_config(cfg, c) ==
    CASE cfg.type = "NoConfig" -> NoConfig_post_enable_config(cfg, c)
      [] cfg.type = "WdtConfig" -> WdtConfig_post_enable_config(cfg, c)
      [] cfg.type = "CtimerConfig" -> CtimerConfig_post_enable_config(cfg, c)
      [] cfg.type = "FlexcommConfig" -> FlexcommConfig_post_enable_config(cfg, c)
      [] cfg.type = "FlexcommConfig14" -> FlexcommConfig14_post_enable_config(cfg, c)
      [] cfg.type = "FlexcommConfig15" -> FlexcommConfig15_post_enable_config(cfg, c)
      [] cfg.type = "AdcConfig" -> AdcConfig_post_enable_config(cfg, c)
      [] cfg.type = "Sct0Config" -> Sct0Config_post_enable_config(cfg, c)

\* the impl_perph_clk! table: the config type of each peripheral
SysconPeriphConfig(T) ==
    CASE T = "CRC" -> "NoConfig"
      [] T = "WDT0" -> "WdtConfig"
      [] T = "WDT1" -> "WdtConfig"
      [] T = "CTIMER0_COUNT_CHANNEL0" -> "CtimerConfig"
      [] T = "CTIMER1_COUNT_CHANNEL0" -> "CtimerConfig"
      [] T = "FLEXCOMM0" -> "FlexcommConfig"
      [] T = "FLEXCOMM1" -> "FlexcommConfig"
      [] T = "FLEXCOMM14" -> "FlexcommConfig14"
      [] T = "FLEXCOMM15" -> "FlexcommConfig15"
      [] T = "ADC0" -> "AdcConfig"
      [] T = "SCT0" -> "Sct0Config"

----------------------------------------------------------------------------
(* init, step by step *)

NoArgs == [none |-> TRUE]

Self == [config |-> config, clocks |-> clocks, regs |-> regs, writes |-> writes]

\* the program-counter labels of the three pieces of setup_pll_pfdN
pfd_pc(n) ==
    CASE n = 0 -> "setup_pll_pfd0" [] n = 1 -> "setup_pll_pfd1"
      [] n = 2 -> "setup_pll_pfd2" [] n = 3 -> "setup_pll_pfd3"

pfd_clkrdy_pc(n) ==
    CASE n = 0 -> "pfd0_clkrdy" [] n = 1 -> "pfd1_clkrdy"
      [] n = 2 -> "pfd2_clkrdy" [] n = 3 -> "pfd3_clkrdy"

pfd_reqflag_pc(n) ==
    CASE n = 0 -> "pfd0_reqflag" [] n = 1 -> "pfd1_reqflag"
      [] n = 2 -> "pfd2_reqflag" [] n = 3 -> "pfd3_reqflag"

after_pfd(n) == IF n < 3 THEN pfd_pc(n + 1) ELSE "setup_main_clock"

\* the operator's effect on init's locals and on the hardware
Commit(s) ==
    /\ clocks' = s.clocks
    /\ regs' = s.regs
    /\ writes' = s.writes

\* `?` on an Err, or a panic: init is over
Return(res) ==
    /\ pc' = IF res.tag = "Panic" THEN "panicked" ELSE "returned"
    /\ result' = res

Enter(step) == trace' = Append(trace, step)

\* init without its look at CLOCKS
already_configured_never == FALSE

\* lines 41-47: CLOCKS.borrow_ref(cs).is_some()
already_configured == is_some(CLOCKS)

\* init with the registry of the call before in place of Clocks::default()
init_call_keeping_registry(cfg, sel) ==
    /\ pc \in {"idle", "returned"}
    /\ calls < MaxInitCalls
    /\ calls' = calls + 1
    /\ writes' = <<>>
    /\ trace' = <<>>
    /\ IF already_configured
       THEN /\ Return(AlreadyConfigured)
            /\ UNCHANGED <<config, clk_in_select, clocks, pll_output_freq, pfd_freq, out_freq>>
       ELSE /\ pc' = "setup_clock_in"
            /\ config' = cfg
            /\ clk_in_select' = sel
            /\ UNCHANGED clocks
            /\ pll_output_freq' = None
            /\ pfd_freq' = 0
            /\ out_freq' = 0
            /\ result' = NoResult
    /\ UNCHANGED <<CLOCKS, regs, periphVars, raceVars>>

\* lines 37-57: the already-configured check and the fresh registry
init_call(cfg, sel) ==
    /\ pc \in {"idle", "returned"}
    /\ calls < MaxInitCalls
    /\ calls' = calls + 1
    /\ writes' = <<>>
    /\ trace' = <<>>
    /\ IF already_configured
       THEN /\ Return(AlreadyConfigured)
            /\ UNCHANGED <<config, clk_in_select, clocks, pll_output_freq, pfd_freq, out_freq>>
       ELSE /\ pc' = "setup_clock_in"
            /\ config' = cfg
            /\ clk_in_select' = sel
            /\ clocks' = Clocks_default
            /\ pll_output_freq' = None
            /\ pfd_freq' = 0
            /\ out_freq' = 0
            /\ result' = NoResult
    /\ UNCHANGED <<CLOCKS, regs, periphVars, raceVars>>

\* line 60
init_setup_clock_in ==
    /\ pc = "setup_clock_in"
    /\ Enter("setup_clock_in")
    /\ Commit(setup_clock_in(Self, clk_in_select))
    /\ pc' = "setup_main_pll"
    /\ UNCHANGED <<CLOCKS, config, clk_in_select, pll_output_freq, pfd_freq, out_freq,
                   result, calls, periphVars, raceVars>>

\* lines 63-65
init_setup_main_pll ==
    /\ pc = "setup_main_pll"
    /\ Enter("setup_main_pll")
    /\ \E overflow_checks \in BOOLEAN :
         LET r == setup_main_pll(Self, config.main_pll, overflow_checks)
         IN  /\ Commit(r.self)
             /\ IF ~is_ok(r.res)
                THEN Return(r.res) /\ UNCHANGED pll_output_freq
                ELSE /\ pll_output_freq' = IF r.pll THEN Some(r.res.val) ELSE None
                     /\ pc' = IF r.pll THEN pfd_pc(0) ELSE "disable_pll_pfd"
                     /\ UNCHANGED result
    /\ UNCHANGED <<CLOCKS, config, clk_in_select, pfd_freq, out_freq, calls, periphVars, raceVars>>

\* lines 70-77
init_disable_pll_pfd ==
    /\ pc = "disable_pll_pfd"
    /\ Enter("disable_pll_pfd")
    /\ Commit(disable_pll_pfd(disable_pll_pfd(disable_pll_pfd(disable_pll_pfd(Self, 0), 1), 2), 3))
    /\ pc' = "setup_main_clock"
    /\ UNCHANGED <<CLOCKS, config, clk_in_select, pll_output_freq, pfd_freq, out_freq,
                   result, calls, periphVars, raceVars>>

\* lines 66-69: setup_pll_pfdN until it returns or reaches its clkrdy loop
init_setup_pll_pfd(n) ==
    /\ pc = pfd_pc(n)
    /\ Enter(pfd_pc(n))
    /\ LET r == setup_pll_pfd_program(Self, n, unwrap(config.main_pll))
       IN  /\ Commit(r.self)
           /\ IF ~is_ok(r.res)
              THEN Return(r.res)
              ELSE /\ pc' = IF r.wait THEN pfd_clkrdy_pc(n) ELSE after_pfd(n)
                   /\ UNCHANGED result
    /\ UNCHANGED <<CLOCKS, config, clk_in_select, pll_output_freq, pfd_freq, out_freq,
                   calls, periphVars, raceVars>>

\* the clkrdy loop of setup_pll_pfdN ends: on to the output divider
init_pfd_clkrdy(n) ==
    /\ pc = pfd_clkrdy_pc(n)
    /\ LET r == setup_pll_pfd_divider(Self, n, unwrap(config.main_pll), unwrap(pll_output_freq))
       IN  /\ Commit(r.self)
           /\ IF ~is_ok(r.res)
              THEN Return(r.res) /\ UNCHANGED pfd_freq
              ELSE /\ pfd_freq' = r.res.val
                   /\ pc' = pfd_reqflag_pc(n)
                   /\ UNCHANGED result
    /\ UNCHANGED <<CLOCKS, config, clk_in_select, pll_output_freq, out_freq, trace,
                   calls, periphVars, raceVars>>

\* the reqflag loop of setup_pll_pfdN ends: the frequency is recorded
init_pfd_reqflag(n) ==
    /\ pc = pfd_reqflag_pc(n)
    /\ LET r == setup_pll_pfd_record(Self, n, unwrap(config.main_pll), pfd_freq)
       IN  /\ Commit(r.self)
           /\ IF ~is_ok(r.res)
              THEN Return(r.res)
              ELSE pc' = after_pfd(n) /\ UNCHANGED result
    /\ UNCHANGED <<CLOCKS, config, clk_in_select, pll_output_freq, pfd_freq, out_freq, trace,
                   calls, periphVars, raceVars>>

\* line 80
init_setup_main_clock ==
    /\ pc = "setup_main_clock"
    /\ Enter("setup_main_clock")
    /\ LET r == setup_main_clock(Self)
       IN  /\ Commit(r.self)
           /\ IF ~is_ok(r.res)
              THEN Return(r.res)
              ELSE pc' = "setup_system_clock" /\ UNCHANGED result
    /\ UNCHANGED <<CLOCKS, config, clk_in_select, pll_output_freq, pfd_freq, out_freq,
                   calls, periphVars, raceVars>>

\* line 82: setup_system_clock until it returns or reaches its reqflag loop
init_setup_system_clock ==
    /\ pc = "setup_system_clock"
    /\ Enter("setup_system_clock")
    /\ LET r == setup_system_clock_div(Self)
       IN  IF ~is_ok(r.res)
           THEN Commit(r.self) /\ Return(r.res)
           ELSE IF r.wait
           THEN Commit(r.self) /\ pc' = "syscpuahbclkdiv_reqflag" /\ UNCHANGED result
           ELSE /\ Commit(setup_system_clock_record(r.self))
                /\ pc' = "setup_frg_pll_div"
                /\ UNCHANGED result
    /\ UNCHANGED <<CLOCKS, config, clk_in_select, pll_output_freq, pfd_freq, out_freq,
                   calls, periphVars, raceVars>>

\* the reqflag loop of setup_system_clock ends
init_system_clock_reqflag ==
    /\ pc = "syscpuahbclkdiv_reqflag"
    /\ Commit(setup_system_clock_record(Self))
    /\ pc' = "setup_frg_pll_div"
    /\ UNCHANGED <<CLOCKS, config, clk_in_select, pll_output_freq, pfd_freq, out_freq, trace,
                   result, calls, periphVars, raceVars>>

\* line 84: setup_frg_pll_div until it returns or reaches its reqflag loop
init_setup_frg_pll_div ==
    /\ pc = "setup_frg_pll_div"
    /\ Enter("setup_frg_pll_div")
    /\ LET r == setup_frg_pll_div_div(Self)
       IN  IF ~is_ok(r.res)
           THEN Commit(r.self) /\ Return(r.res)
           ELSE IF r.done
           THEN Commit(r.self) /\ pc' = "ensure_core_clocks" /\ UNCHANGED result
           ELSE IF r.wait
           THEN Commit(r.self) /\ pc' = "frgpllclkdiv_reqflag" /\ UNCHANGED result
           ELSE /\ Commit(setup_frg_pll_div_record(r.self))
                /\ pc' = "ensure_core_clocks"
                /\ UNCHANGED result
    /\ UNCHANGED <<CLOCKS, config, clk_in_select, pll_output_freq, pfd_freq, out_freq,
                   calls, periphVars, raceVars>>

\* the reqflag loop of setup_frg_pll_div ends
init_frg_pll_div_reqflag ==
    /\ pc = "frgpllclkdiv_reqflag"
    /\ Commit(setup_frg_pll_div_record(Self))
    /\ pc' = "ensure_core_clocks"
    /\ UNCHANGED <<CLOCKS, config, clk_in_select, pll_output_freq, pfd_freq, out_freq, trace,
                   result, calls, periphVars, raceVars>>

\* init without the activations of lines 95-99
ensure_core_clocks_skipped(self) == self

\* lines 95-99: the five activations whose errors are dropped
ensure_core_clocks(self) ==
    LET s1 == ensure_1mhz_lposc_active(self).self
        s2 == ensure_48_60mhz_irc_active(s1).self
        s3 == ensure_16mhz_irc_active(s2).self
        s4 == ensure_main_pll_clk_active(s3).self
    IN  ensure_32kclk_active(s4).self

init_ensure_core_clocks ==
    /\ pc = "ensure_core_clocks"
    /\ Enter("ensure_core_clocks")
    /\ Commit(ensure_core_clocks(Self))
    /\ pc' = "setup_32k_wake_clk"
    /\ UNCHANGED <<CLOCKS, config, clk_in_select, pll_output_freq, pfd_freq, out_freq,
                   result, calls, periphVars, raceVars>>

\* line 102
init_setup_32k_wake_clk ==
    /\ pc = "setup_32k_wake_clk"
    /\ Enter("setup_32k_wake_clk")
    /\ LET r == setup_32k_wake_clk(Self)
       IN  /\ Commit(r.self)
           /\ IF ~is_ok(r.res)
              THEN Return(r.res)
              ELSE pc' = "setup_clock_out" /\ UNCHANGED result
    /\ UNCHANGED <<CLOCKS, config, clk_in_select, pll_output_freq, pfd_freq, out_freq,
                   calls, periphVars, raceVars>>

\* line 105 with the error dropped (`_ = operator.setup_clock_out();`)
init_setup_clock_out_dropping_error ==
    /\ pc = "setup_clock_out"
    /\ Enter("setup_clock_out")
    /\ LET r == setup_clock_out_div(Self)
       IN  /\ Commit(r.self)
           /\ pc' = IF r.done \/ ~is_ok(r.res) THEN "publish" ELSE "clkoutdiv_reqflag"
           /\ out_freq' = r.res.val
           /\ UNCHANGED result
    /\ UNCHANGED <<CLOCKS, config, clk_in_select, pll_output_freq, pfd_freq,
                   calls, periphVars, raceVars>>

\* line 105: setup_clock_out until it returns or reaches its reqflag loop
init_setup_clock_out ==
    /\ pc = "setup_clock_out"
    /\ Enter("setup_clock_out")
    /\ LET r == setup_clock_out_div(Self)
       IN  /\ Commit(r.self)
           /\ IF ~is_ok(r.res)
              THEN Return(r.res) /\ UNCHANGED out_freq
              ELSE /\ pc' = IF r.done THEN "publish" ELSE "clkoutdiv_reqflag"
                   /\ out_freq' = r.res.val
                   /\ UNCHANGED result
    /\ UNCHANGED <<CLOCKS, config, clk_in_select, pll_output_freq, pfd_freq,
                   calls, periphVars, raceVars>>

\* the reqflag loop of setup_clock_out ends
init_clock_out_reqflag ==
    /\ pc = "clkoutdiv_reqflag"
    /\ LET r == setup_clock_out_record(Self, out_freq)
       IN  /\ Commit(r.self)
           /\ out_freq' = r.res.val
    /\ pc' = "publish"
    /\ UNCHANGED <<CLOCKS, config, clk_in_select, pll_output_freq, pfd_freq, trace,
                   result, calls, periphVars, raceVars>>

\* lines 107-112
init_publish ==
    /\ pc = "publish"
    /\ Enter("publish")
    /\ CLOCKS' = Some(clocks)
    /\ Return(Ok(0))
    /\ UNCHANGED <<regs, config, clk_in_select, clocks, pll_output_freq, pfd_freq, out_freq,
                   writes, calls, periphVars, raceVars>>

----------------------------------------------------------------------------
(* a second init invocation that pre-empts the first (an interrupt handler, *)
(* or an executor of higher priority, that calls init): it runs from its own *)
(* check to its own return while the first invocation stands still          *)

Frame ==
    [ pc |-> pc, config |-> config, clk_in_select |-> clk_in_select, clocks |-> clocks,
      pll_output_freq |-> pll_output_freq, pfd_freq |-> pfd_freq, out_freq |-> out_freq,
      writes |-> writes, trace |-> trace, result |-> result ]

\* lines 37-57 in the pre-empting invocation; the pre-empted one is between its
\* check (41-47) and its publish (107-112)
init_preempt(cfg, sel) ==
    /\ pc \notin {"idle", "returned", "panicked"}
    /\ suspended = NoArgs /\ inner = NoArgs
    /\ calls < MaxInitCalls
    /\ calls' = calls + 1
    /\ suspended' = Frame
    /\ writes' = <<>>
    /\ trace' = <<>>
    /\ IF already_configured
       THEN /\ Return(AlreadyConfigured)
            /\ UNCHANGED <<config, clk_in_select, clocks, pll_output_freq, pfd_freq, out_freq>>
       ELSE /\ pc' = "setup_clock_in"
            /\ config' = cfg
            /\ clk_in_select' = sel
            /\ clocks' = Clocks_default
            /\ pll_output_freq' = None
            /\ pfd_freq' = 0
            /\ out_freq' = 0
            /\ result' = NoResult
    /\ UNCHANGED <<CLOCKS, regs, periphVars, inner>>

\* the pre-empting invocation has returned: the pre-empted one goes on where it stood
init_resume ==
    /\ suspended # NoArgs
    /\ pc = "returned"
    /\ inner' = [result |-> result, writes |-> writes, config |-> config]
    /\ pc' = suspended.pc
    /\ config' = suspended.config
    /\ clk_in_select' = suspended.clk_in_select
    /\ clocks' = suspended.clocks
    /\ pll_output_freq' = suspended.pll_output_freq
    /\ pfd_freq' = suspended.pfd_freq
    /\ out_freq' = suspended.out_freq
    /\ writes' = suspended.writes
    /\ trace' = suspended.trace
    /\ result' = suspended.result
    /\ suspended' = NoArgs
    /\ UNCHANGED <<CLOCKS, regs, calls, periphVars>>

----------------------------------------------------------------------------
(* with_clocks, enable, enable_and_reset, disable *)

\* a query that reads the registry init is still filling
with_clocks_reading_local == IF pc = "idle" THEN None ELSE Some(clocks)

\* lines 1041-1047: with_clocks(|c| c.clone())
with_clocks == CLOCKS

PE(ev, who, val) == [ev |-> ev, who |-> who, val |-> val]

RECURSIVE apply_sel(_, _)
apply_sel(f, sel) ==
    IF sel = <<>> THEN f
    ELSE apply_sel([f EXCEPT ![sel[1].reg] = sel[1].val], Tail(sel))

RECURSIVE sel_events(_)
sel_events(sel) ==
    IF sel = <<>> THEN <<>>
    ELSE <<PE("write", sel[1].reg, sel[1].val)>> \o sel_events(Tail(sel))

\* disable::<T>()
periph_disable(T) ==
    /\ ppc \in {"idle", "returned"}
    /\ pcalls < MaxPeriphCalls
    /\ pcalls' = pcalls + 1
    /\ pcall' = [entry |-> "disable", T |-> T, cfg |-> [type |-> "NoConfig"]]
    /\ gates' = gates \ {T}
    /\ pevents' = <<PE("disable_perph_clock", T, 0)>>
    /\ presult' = Ok(0)
    /\ ppc' = "returned"
    /\ UNCHANGED <<CLOCKS, regs, initVars, raceVars, released, fclksel>>

\* enable::<T>(cfg) or enable_and_reset::<T>(cfg), line 1068: T::enable_perph_clock()
periph_call(entry, T, cfg) ==
    /\ ppc \in {"idle", "returned"}
    /\ pcalls < MaxPeriphCalls
    /\ cfg.type = SysconPeriphConfig(T)
    /\ pcalls' = pcalls + 1
    /\ pcall' = [entry |-> entry, T |-> T, cfg |-> cfg]
    /\ gates' = gates \cup {T}
    /\ pevents' = <<PE("enable_perph_clock", T, 1)>>
    /\ presult' = NoResult
    /\ ppc' = "post_enable_config"
    /\ UNCHANGED <<CLOCKS, regs, initVars, raceVars, released, fclksel>>

\* the missing registry reported as a configuration error
not_initialized_as_bad_config == bad_config("didn't call init")

\* line 1071: the error of a registry that is not there
not_initialized == prog_err("didn't call init")

\* enable_and_reset without the `?` of line 1083
after_post_enable_config_always_reset(res, entry) ==
    IF entry = "enable_and_reset" THEN "reset_perph" ELSE "returned"

\* lines 1073-1074 and 1083: where the call goes after post_enable_config
after_post_enable_config(res, entry) ==
    IF is_ok(res) /\ entry = "enable_and_reset" THEN "reset_perph" ELSE "returned"

\* lines 1069-1074 (and 1083): the critical section of enable
periph_post_enable_config ==
    /\ ppc = "post_enable_config"
    /\ IF is_none(CLOCKS)
       THEN /\ presult' = not_initialized
            /\ ppc' = "returned"
            /\ UNCHANGED <<pevents, fclksel>>
       ELSE LET r == post_enable_config(pcall.cfg, unwrap(CLOCKS))
            IN  /\ pevents' = pevents \o <<PE("post_enable_config", pcall.T, 0)>>
                                \o sel_events(r.sel)
                                \o <<PE("post_enable_config_done", pcall.T,
                                        IF is_ok(r.res) THEN 1 ELSE 0)>>
                /\ fclksel' = apply_sel(fclksel, r.sel)
                /\ presult' = r.res
                /\ ppc' = after_post_enable_config(r.res, pcall.entry)
    /\ UNCHANGED <<CLOCKS, regs, initVars, raceVars, pcall, pcalls, gates, released>>

\* lines 1084-1085: T::reset_perph()
periph_reset_perph ==
    /\ ppc = "reset_perph"
    /\ released' = released \cup {pcall.T}
    /\ pevents' = Append(pevents, PE("reset_perph", pcall.T, 1))
    /\ ppc' = "returned"
    /\ UNCHANGED <<CLOCKS, regs, initVars, raceVars, pcall, presult, pcalls, gates, fclksel>>

----------------------------------------------------------------------------
(* Inputs: the ClockConfig and ClkInSelect values the caller may pass *)

Cfg(e32k, e16m, e1m, irc, wake, pll, main, ahb, frg, cos, cod) ==
    [ enable_32k_clk |-> e32k, enable_16m_irc |-> e16m, enable_1m_lposc |-> e1m,
      _48_60m_irc_select |-> irc, _32k_wake_clk_select |-> wake, main_pll |-> pll,
      main_clock_select |-> main, sys_cpu_ahb_div |-> ahb, frg_clk_pll_div |-> frg,
      clk_out_select |-> cos, clk_out_div |-> cod ]

\* pfd and cd are the four PFD dividers and the four output clock dividers
Pll(sel, mult, pfd, cd) ==
    [ clock_select |-> sel, multiplier |-> mult,
      pfd0_div |-> pfd[1], pfd1_div |-> pfd[2], pfd2_div |-> pfd[3], pfd3_div |-> pfd[4],
      main_pll_clock_divider |-> cd[1], dsp_pll_clock_divider |-> cd[2],
      aux0_pll_clock_divider |-> cd[3], aux1_pll_clock_divider |-> cd[4] ]

Xtal(f) == [kind |-> "Xtal", freq |-> f, bypass |-> FALSE, low_power |-> FALSE]
ClkInPin(kind, f) == [kind |-> kind, freq |-> f, bypass |-> FALSE, low_power |-> FALSE]

Input(cfg, sel) == [config |-> cfg, clk_in_select |-> sel]

_48_60mIrcSelect == {"Off", "Mhz48", "Mhz60"}
_32kWakeClkSelect == {"Off", "_32kClk", "Lp32k"}
MainClockSelect == {"_48_60MIrcDiv4", "ClkIn", "_1mLposc", "_48_60MIrc", "_16mIrc",
                    "MainPllClk", "_32kClk"}
MainPllClockSelect == {"_16mIrc", "ClkIn", "_48_60MIrcDiv2"}
ClockOutSource == {"M16Irc", "ClkIn", "M1Lposc", "M4860Irc", "MainClk", "DspMainClk",
                   "MainPllClk", "Aux0PllClk", "DspPllClk", "Aux1PllClk", "AudioPllClk",
                   "K32Clk", "None"}

\* multipliers around the allowed range 16..=22
Multipliers == {15, 16, 18, 22, 23}

\* one PFD: <<pfdN_div, output clock divider>>, around 12..=35 and 1..=256
PfdSettings ==
    { <<None, 2>>, <<Some(18), 2>>, <<Some(12), 256>>, <<Some(35), 1>>, <<Some(24), 3>>,
      <<Some(11), 2>>, <<Some(36), 2>>, <<Some(18), 0>>, <<Some(18), 257>> }

\* the four PFDs: one of them takes any setting, the other three are all off or all on
PfdRows ==
    { [k \in 1..4 |-> IF k = n THEN s ELSE b] :
        n \in 1..4, s \in PfdSettings, b \in { <<None, 2>>, <<Some(18), 2>> } }

PllOfRow(sel, mult, row) ==
    Pll(sel, mult, [k \in 1..4 |-> row[k][1]], [k \in 1..4 |-> row[k][2]])

Pfd0Only == [k \in 1..4 |-> IF k = 1 THEN <<Some(18), 2>> ELSE <<None, 2>>]

\* which PFD outputs exist, for the consumers of the PLL clocks
PresenceRows ==
    { [k \in 1..4 |-> IF k \in on THEN <<Some(18), 3>> ELSE <<None, 3>>] :
        on \in { {}, {1}, {2}, {3}, {4}, {3, 4}, {1, 2, 3, 4} } }

\* oscillators and the main clock, wake clock and clock-out muxes, without PLL
OscInputs ==
    { Input(Cfg(e32k, e16m, e1m, irc, wake, None, main, 0, None, "None", None), Xtal(24000000)) :
        e32k \in BOOLEAN, e16m \in BOOLEAN, e1m \in BOOLEAN, irc \in _48_60mIrcSelect,
        wake \in _32kWakeClkSelect, main \in MainClockSelect }

\* the clock-out mux over the oscillators: only the main clock's oscillator is
\* enabled, or all of them are
OscSetups ==
    { <<FALSE, TRUE, FALSE, "Off", "_16mIrc">>, <<FALSE, FALSE, TRUE, "Off", "_1mLposc">>,
      <<TRUE, TRUE, TRUE, "Mhz60", "_16mIrc">> }

ClkOutInputs ==
    { Input(Cfg(o[1], o[2], o[3], o[4], "Off", None, o[5], 1, None, cos, cod), Xtal(24000000)) :
        o \in OscSetups,
        cos \in ClockOutSource \ {"Aux0PllClk", "DspPllClk", "Aux1PllClk"},
        cod \in {None, Some(1)} }

\* the PLL and its PFDs
PllInputs ==
    { Input(Cfg(TRUE, e16m, TRUE, irc, "Off", Some(PllOfRow(sel, mult, Pfd0Only)),
                "_1mLposc", 0, None, "None", None), Xtal(24000000)) :
        e16m \in BOOLEAN, irc \in _48_60mIrcSelect, sel \in MainPllClockSelect,
        mult \in Multipliers }
    \cup
    { Input(Cfg(e32k, TRUE, TRUE, "Mhz48", "_32kClk", Some(PllOfRow("_16mIrc", 18, row)),
                "_1mLposc", 0, None, "None", None), Xtal(24000000)) :
        e32k \in BOOLEAN, row \in PfdRows }

\* the consumers of the PLL clocks: FRG PLL divider and clock-out
PllOutInputs ==
    { Input(Cfg(TRUE, TRUE, TRUE, "Mhz48", "Off", pll, "_16mIrc", 1, frg, cos, cod),
            Xtal(24000000)) :
        pll \in {None} \cup { Some(PllOfRow("_16mIrc", 18, row)) : row \in PresenceRows },
        frg \in {None, Some(0), Some(1)},
        cos \in {"MainPllClk", "Aux0PllClk", "DspPllClk", "Aux1PllClk"},
        cod \in {None, Some(1)} }

\* the clock-in pin and its frequency
ClkInInputs ==
    { Input(Cfg(FALSE, FALSE, TRUE, "Off", "Off", Some(PllOfRow("ClkIn", 16, Pfd0Only)),
                "_1mLposc", 0, None, "ClkIn", Some(0)), sel) :
        sel \in { Xtal(12000000), ClkInPin("ClkIn0_25", 24000000),
                  ClkInPin("ClkIn2_15", 16000000), ClkInPin("ClkIn2_30", 32768),
                  ClkInPin("ClkIn0_25", 300000000) } }

\* the CPU clock divider over main clocks it does not divide evenly
AhbInputs ==
    { Input(Cfg(TRUE, FALSE, TRUE, "Mhz60", "Off", None, main, ahb, None, "None", None),
            Xtal(24000000)) :
        main \in {"_32kClk", "_48_60MIrcDiv4", "_1mLposc"}, ahb \in {2, 6, 255} }

\* 16 MHz oscillator, PLL x18 from it, PFD0 divider 18, main-PLL output divider 2,
\* main clock from the PLL output
ScenarioB ==
    Input(Cfg(FALSE, TRUE, FALSE, "Off", "Off", Some(PllOfRow("_16mIrc", 18, Pfd0Only)),
              "MainPllClk", 0, None, "None", None), Xtal(24000000))

Inputs ==
    OscInputs \cup ClkOutInputs \cup PllInputs \cup PllOutInputs \cup ClkInInputs \cup AhbInputs
        \cup {ScenarioB}

----------------------------------------------------------------------------
(* Specification of the bring-up *)

\* the function-clock selectors and FRG fields the peripheral calls of the model write
SelectorRegisters ==
    { "WDT0FCLKSEL", "WDT1FCLKSEL", "CT32BIT0FCLKSEL", "CT32BIT1FCLKSEL",
      "ADC0FCLKSEL0", "ADC0FCLKSEL1", "ADC0FCLKDIV.halt", "ADC0FCLKDIV.div",
      "SCTFCLKSEL", "SCTFCLKDIV.halt", "SCTFCLKDIV.div" }
    \cup UNION { { flexcomm_regs(u).frgclksel, flexcomm_regs(u).frgctl \o ".mult",
                   flexcomm_regs(u).frgctl \o ".div", flexcomm_regs(u).fcfclksel } :
                 u \in {0, 14, 15} }

Init ==
    /\ CLOCKS = None
    /\ regs = [syscpuahbclkdiv |-> 0, frgpllclkdiv |-> 0, syspll0locktimediv2 |-> 100]
    /\ pc = "idle"
    /\ config = NoArgs
    /\ clk_in_select = NoArgs
    /\ clocks = Clocks_default
    /\ pll_output_freq = None
    /\ pfd_freq = 0
    /\ out_freq = 0
    /\ writes = <<>>
    /\ trace = <<>>
    /\ result = NoResult
    /\ calls = 0
    /\ ppc = "idle"
    /\ pcall = NoArgs
    /\ pevents = <<>>
    /\ presult = NoResult
    /\ pcalls = 0
    /\ gates = {}
    /\ released = {}
    /\ fclksel = [r \in SelectorRegisters |-> 7]
    /\ suspended = NoArgs
    /\ inner = NoArgs

InitSteps ==
    \/ init_setup_clock_in
    \/ init_setup_main_pll
    \/ init_disable_pll_pfd
    \/ \E n \in 0..3 : init_setup_pll_pfd(n)
    \/ \E n \in 0..3 : init_pfd_clkrdy(n)
    \/ \E n \in 0..3 : init_pfd_reqflag(n)
    \/ init_setup_main_clock
    \/ init_setup_system_clock
    \/ init_system_clock_reqflag
    \/ init_setup_frg_pll_div
    \/ init_frg_pll_div_reqflag
    \/ init_ensure_core_clocks
    \/ init_setup_32k_wake_clk
    \/ init_setup_clock_out
    \/ init_clock_out_reqflag
    \/ init_publish

Next ==
    \/ \E i \in Inputs : init_call(i.config, i.clk_in_select)
    \/ InitSteps

Spec == Init /\ [][Next]_vars

----------------------------------------------------------------------------
(* Properties of the bring-up *)

wrote(reg) == \E i \in 1..Len(writes) : writes[i].reg = reg
entered(step) == \E i \in 1..Len(trace) : trace[i] = step
is_error(r) == r.tag \in {"BadConfiguration", "Programming"}

\* the order of the bring-up steps in init, lines 59-111
StepOrder ==
    << "setup_clock_in", "setup_main_pll", "setup_pll_pfd0", "setup_pll_pfd1",
       "setup_pll_pfd2", "setup_pll_pfd3", "disable_pll_pfd", "setup_main_clock",
       "setup_system_clock", "setup_frg_pll_div", "ensure_core_clocks",
       "setup_32k_wake_clk", "setup_clock_out", "publish" >>

step_index(step) == CHOOSE i \in 1..Len(StepOrder) : StepOrder[i] = step

\* what the piece of the step at pc returns when it is run on the present state
step_result ==
    CASE pc = "setup_main_pll" -> setup_main_pll(Self, config.main_pll, FALSE).res
      [] pc \in {pfd_pc(n) : n \in 0..3} ->
            setup_pll_pfd_program(Self, CHOOSE n \in 0..3 : pc = pfd_pc(n),
                                  unwrap(config.main_pll)).res
      [] pc \in {pfd_clkrdy_pc(n) : n \in 0..3} ->
            setup_pll_pfd_divider(Self, CHOOSE n \in 0..3 : pc = pfd_clkrdy_pc(n),
                                  unwrap(config.main_pll), unwrap(pll_output_freq)).res
      [] pc = "setup_main_clock" -> setup_main_clock(Self).res
      [] pc = "setup_system_clock" -> setup_system_clock_div(Self).res
      [] pc = "setup_frg_pll_div" -> setup_frg_pll_div_div(Self).res
      [] pc = "setup_32k_wake_clk" -> setup_32k_wake_clk(Self).res
      [] pc = "setup_clock_out" -> setup_clock_out_div(Self).res
      [] OTHER -> Ok(0)

\* C1: once init has returned Ok, which is when the registry is published, every
\* later init call returns AlreadyConfigured, enters no bring-up step, writes no
\* hardware register and leaves the published registry as it is; AlreadyConfigured
\* is returned only by such a call, never by a call that looked at its configuration.
C1_AlreadyConfigured ==
    [][ /\ (is_some(CLOCKS) /\ calls' = calls + 1)
            => /\ result' = AlreadyConfigured
               /\ pc' = "returned"
               /\ writes' = <<>>
               /\ trace' = <<>>
               /\ regs' = regs
               /\ CLOCKS' = CLOCKS
        /\ (result'.tag = "AlreadyConfigured")
            => (is_some(CLOCKS') /\ writes' = <<>> /\ trace' = <<>>)
        /\ (is_none(CLOCKS) /\ is_some(CLOCKS'))
            => (result' = Ok(0) /\ pc' = "returned")
        /\ (pc' = "returned" /\ result'.tag = "Ok") => is_some(CLOCKS')
      ]_vars

\* a second init call has been rejected after a successful first one
C1_Witness ==
    /\ calls = 2
    /\ pc = "returned"
    /\ result = AlreadyConfigured
    /\ is_some(CLOCKS)

\* C2: when a bring-up step returns an error, init returns that very error at
\* once: the step is not run again, no later step is entered, the registry is not
\* published, and nothing runs until the next init call.
C2_ErrorsPropagate ==
    [][ /\ (is_error(step_result) /\ pc' # pc)
            => /\ result' = step_result
               /\ pc' = "returned"
               /\ is_none(CLOCKS')
        /\ (pc' = "returned" /\ is_error(result'))
            => /\ is_none(CLOCKS')
               /\ \A i \in 1..Len(trace') : \A j \in 1..Len(trace') :
                    i < j => step_index(trace'[i]) < step_index(trace'[j])
        /\ (pc = "returned" /\ is_error(result) /\ initVars' # initVars)
            => calls' = calls + 1
      ]_vars

\* the last step, setup_clock_out, has failed with the error of its unimplemented source
C2_Witness ==
    /\ pc = "returned"
    /\ result = prog_err("dsp_main_clk not implemented")
    /\ Len(trace) > 0
    /\ trace[Len(trace)] = "setup_clock_out"
    /\ is_none(CLOCKS)

----------------------------------------------------------------------------
(* Upstream before downstream *)

pll_input_active(c, cfg) ==
    /\ is_some(cfg.main_pll)
    /\ LET sel == unwrap(cfg.main_pll).clock_select
       IN  CASE sel = "_16mIrc" -> c._16m_irc.enabled
             [] sel = "ClkIn" -> is_some(c.clk_in)
             [] sel = "_48_60MIrcDiv2" -> is_some(c._48_60m_irc)

wake_source_enabled(c, cfg) ==
    LET sel == cfg._32k_wake_clk_select
    IN  CASE sel = "_32kClk" -> c._32k_clk.enabled
          [] sel = "Lp32k" -> c._1m_lposc.enabled
          [] sel = "Off" -> FALSE

clk_out_source_active(c, cfg) ==
    LET sel == cfg.clk_out_select
    IN  CASE sel = "M16Irc" -> c._16m_irc.enabled
          [] sel = "ClkIn" -> is_some(c.clk_in)
          [] sel = "M1Lposc" -> c._1m_lposc.enabled
          [] sel = "M4860Irc" -> is_some(c._48_60m_irc)
          [] sel = "MainClk" -> c.main_clk # 0
          [] sel = "MainPllClk" -> is_some(c.main_pll_clk)
          [] sel = "Aux0PllClk" -> is_some(c.aux0_pll_clk)
          [] sel = "DspPllClk" -> is_some(c.dsp_pll_clk)
          [] sel = "Aux1PllClk" -> is_some(c.aux1_pll_clk)
          [] sel = "K32Clk" -> c._32k_clk.enabled
          [] OTHER -> FALSE

upstream_before_downstream(c, cfg) ==
    /\ is_some(c.frg_pll_clk) => is_some(c.main_pll_clk)
    /\ \A n \in 0..3 : is_some(pll_clk(c, n)) => pll_input_active(c, cfg)
    /\ is_some(c._32k_wake_clk) => wake_source_enabled(c, cfg)
    /\ is_some(c.clk_out) => clk_out_source_active(c, cfg)
    /\ is_some(c.sys_cpu_ahb_clk) => c.main_clk # 0

\* C3: in every state of a bring-up and in every published registry no derived
\* node is Some while its upstream is absent: frg_pll_clk needs main_pll_clk, the
\* four PLL clocks need the PLL input source, _32k_wake_clk needs its selected
\* source, clk_out needs its selected source, sys_cpu_ahb_clk needs main_clk.
C3_UpstreamBeforeDownstream ==
    pc # "idle" =>
        /\ upstream_before_downstream(clocks, config)
        /\ is_some(CLOCKS) => upstream_before_downstream(unwrap(CLOCKS), config)

----------------------------------------------------------------------------
(* Oscillators and their consumers *)

Consumers == {"pll_input", "main_clock", "wake_clock", "clock_out"}

\* the oscillator a consumer mux selects in the configuration, "none" when it
\* selects something that is not an oscillator
consumer_osc(cfg, k) ==
    CASE k = "pll_input" ->
            IF is_none(cfg.main_pll) THEN "none"
            ELSE LET sel == unwrap(cfg.main_pll).clock_select
                 IN  CASE sel = "_16mIrc" -> "16m_irc"
                       [] sel = "_48_60MIrcDiv2" -> "48_60m_irc"
                       [] OTHER -> "none"
      [] k = "main_clock" ->
            LET sel == cfg.main_clock_select
            IN  CASE sel \in {"_48_60MIrcDiv4", "_48_60MIrc"} -> "48_60m_irc"
                  [] sel = "_1mLposc" -> "1m_lposc"
                  [] sel = "_16mIrc" -> "16m_irc"
                  [] sel = "_32kClk" -> "32k_clk"
                  [] OTHER -> "none"
      [] k = "wake_clock" ->
            LET sel == cfg._32k_wake_clk_select
            IN  CASE sel = "_32kClk" -> "32k_clk"
                  [] sel = "Lp32k" -> "1m_lposc"
                  [] OTHER -> "none"
      [] k = "clock_out" ->
            LET sel == cfg.clk_out_select
            IN  CASE sel = "M16Irc" -> "16m_irc"
                  [] sel = "M1Lposc" -> "1m_lposc"
                  [] sel = "M4860Irc" -> "48_60m_irc"
                  [] sel = "K32Clk" -> "32k_clk"
                  [] OTHER -> "none"

osc_enabled(cfg, osc) ==
    CASE osc = "16m_irc" -> cfg.enable_16m_irc
      [] osc = "1m_lposc" -> cfg.enable_1m_lposc
      [] osc = "32k_clk" -> cfg.enable_32k_clk
      [] osc = "48_60m_irc" -> cfg._48_60m_irc_select # "Off"
      [] OTHER -> TRUE

\* the consumer has a frequency in the registry
consumer_recorded(c, k) ==
    CASE k = "pll_input" -> \E n \in 0..3 : is_some(pll_clk(c, n))
      [] k = "main_clock" -> c.main_clk # 0
      [] k = "wake_clock" -> is_some(c._32k_wake_clk)
      [] k = "clock_out" -> is_some(c.clk_out)

\* the present state belongs to an init call that took `config`
in_bring_up == pc # "idle" /\ result.tag # "AlreadyConfigured"

----------------------------------------------------------------------------
(* Idempotence of the activations *)

\* second call right after the first: no further write, the same result
twice(r1, r2) == r2.self.writes = r1.self.writes /\ r2.res = r1.res

\* the node is active already: the state stays as it is and the call is Ok
untouched(active, r1) == active => (r1.self = Self /\ is_ok(r1.res))

\* C5: each of ensure_16mhz_irc_active, ensure_48_60mhz_irc_active,
\* ensure_1mhz_lposc_active and ensure_32kclk_active, called twice in a row from
\* any state of a bring-up, writes hardware in the first call only and returns the
\* same both times; when the registry shows the node active the call touches no
\* hardware and returns Ok.
C5_EnsureIdempotent ==
    in_bring_up =>
        /\ twice(ensure_16mhz_irc_active(Self),
                 ensure_16mhz_irc_active(ensure_16mhz_irc_active(Self).self))
        /\ twice(ensure_48_60mhz_irc_active(Self),
                 ensure_48_60mhz_irc_active(ensure_48_60mhz_irc_active(Self).self))
        /\ twice(ensure_1mhz_lposc_active(Self),
                 ensure_1mhz_lposc_active(ensure_1mhz_lposc_active(Self).self))
        /\ twice(ensure_32kclk_active(Self),
                 ensure_32kclk_active(ensure_32kclk_active(Self).self))
        /\ untouched(clocks._16m_irc.enabled, ensure_16mhz_irc_active(Self))
        /\ untouched(is_some(clocks._48_60m_irc), ensure_48_60mhz_irc_active(Self))
        /\ untouched(clocks._1m_lposc.enabled, ensure_1mhz_lposc_active(Self))
        /\ untouched(clocks._32k_clk.enabled, ensure_32kclk_active(Self))

----------------------------------------------------------------------------
(* Range checks of the PLL *)

PllRegisters ==
    { "SYSPLL0CTL0.mult", "SYSPLL0CTL0.holdringoff_ena", "SYSPLL0CLKSEL", "SYSPLL0NUM",
      "SYSPLL0DENOM", "PDRUNCFG0_CLR.syspll_pd" }

OscillatorRegisters ==
    { "PDRUNCFG0.sfro_pd", "PDRUNCFG0.ffro_pd", "FFROCTL0.trim_range", "FFROCTL1.update" }

\* C6: with a MainPll whose multiplier is outside 16..=22, setup_main_pll returns
\* BadConfiguration, and so does init, with no write to SYSPLL0CTL0, the PLL input
\* mux, the num/denom registers or the PLL power-up register, and with the input
\* oscillator not activated.
C6_MultiplierRejectedFirst ==
    (/\ in_bring_up
     /\ entered("setup_main_pll")
     /\ is_some(config.main_pll)
     /\ ~(unwrap(config.main_pll).multiplier \in 16..22))
    => /\ pc = "returned"
       /\ result = bad_config("main pll multiplier out of allowed range")
       /\ trace[Len(trace)] = "setup_main_pll"
       /\ \A r \in PllRegisters \cup OscillatorRegisters : ~wrote(r)
       /\ ~clocks._16m_irc.enabled
       /\ is_none(clocks._48_60m_irc)
       /\ is_none(CLOCKS)

\* multiplier 23 on the enabled 16 MHz oscillator has been rejected
C6_Witness ==
    /\ in_bring_up
    /\ pc = "returned"
    /\ is_some(config.main_pll)
    /\ unwrap(config.main_pll).multiplier = 23
    /\ unwrap(config.main_pll).clock_select = "_16mIrc"
    /\ config.enable_16m_irc
    /\ result = bad_config("main pll multiplier out of allowed range")

\* C7: for each PFD N, a pfdN_div outside 12..=35 is rejected with
\* BadConfiguration with no write to the PFD's fields of SYSPLL0PFD, and an output
\* clock divider outside 1..=256 is rejected with BadConfiguration with no write
\* to that output divider register; either way the registry field stays None.
C7_PfdRangesRejectedFirst ==
    (in_bring_up /\ is_some(config.main_pll)) =>
        \A n \in 0..3 :
            LET mp == unwrap(config.main_pll)
                d == pfd_div(mp, n)
                cd == pll_clock_divider(mp, n)
            IN  /\ (entered(pfd_pc(n)) /\ is_some(d) /\ ~(unwrap(d) \in 12..35))
                    => /\ pc = "returned"
                       /\ result = bad_config(pfd_div_reason(n))
                       /\ trace[Len(trace)] = pfd_pc(n)
                       /\ ~wrote(pfd_field(n))
                       /\ ~wrote(pfd_clkrdy(n))
                       /\ ~wrote(pfd_clkgate(n))
                       /\ ~wrote(pllclkdiv(n))
                       /\ is_none(pll_clk(clocks, n))
                /\ (/\ entered(pfd_pc(n)) /\ pc # pfd_clkrdy_pc(n)
                    /\ is_some(d) /\ unwrap(d) \in 12..35 /\ ~(cd \in 1..256))
                    => /\ pc = "returned"
                       /\ result = bad_config(pll_clock_divider_reason(n))
                       /\ trace[Len(trace)] = pfd_pc(n)
                       /\ ~wrote(pllclkdiv(n))
                       /\ ~wrote(pllclkdiv_halt(n))
                       /\ is_none(pll_clk(clocks, n))

\* pfd2_div = 36 has been rejected after PFD0 and PFD1 were set up
C7_Witness ==
    /\ in_bring_up
    /\ pc = "returned"
    /\ is_some(config.main_pll)
    /\ unwrap(config.main_pll).pfd2_div = Some(36)
    /\ result = bad_config(pfd_div_reason(2))
    /\ is_some(clocks.main_pll_clk)
    /\ is_none(clocks.aux0_pll_clk)

\* C8: for every PFD N with pfdN_div in 12..=35 and output clock divider in
\* 1..=256, setup_pll_pfdN neither panics nor fails, and once it is through the
\* registry field is Some.
C8_AllowedDividersComplete ==
    (in_bring_up /\ is_some(config.main_pll)) =>
        \A n \in 0..3 :
            LET mp == unwrap(config.main_pll)
                d == pfd_div(mp, n)
                cd == pll_clock_divider(mp, n)
            IN  (entered(pfd_pc(n)) /\ is_some(d) /\ unwrap(d) \in 12..35 /\ cd \in 1..256)
                => /\ ~(trace[Len(trace)] = pfd_pc(n) /\ pc \in {"returned", "panicked"})
                   /\ pc \notin {pfd_clkrdy_pc(n), pfd_reqflag_pc(n)}
                        => is_some(pll_clk(clocks, n))

----------------------------------------------------------------------------
(* Specification of the peripheral calls next to the bring-up *)

NoConfig == [type |-> "NoConfig"]
WdtConfig(source, instance) == [type |-> "WdtConfig", source |-> source, instance |-> instance]
CtimerConfig(source, instance) ==
    [type |-> "CtimerConfig", source |-> source, instance |-> instance]

AllPfds == [k \in 1..4 |-> <<Some(18), 2>>]

\* a configuration that brings every node up, one that brings up the 16 MHz
\* oscillator alone, and one that fails at the main clock
PeriphInputs ==
    { Input(Cfg(TRUE, TRUE, TRUE, "Mhz48", "Lp32k", Some(PllOfRow("_16mIrc", 18, AllPfds)),
                "_16mIrc", 1, Some(1), "MainPllClk", Some(1)), Xtal(24000000)),
      Input(Cfg(FALSE, TRUE, FALSE, "Off", "Off", None, "_16mIrc", 0, None, "None", None),
            Xtal(24000000)),
      Input(Cfg(FALSE, FALSE, FALSE, "Off", "Off", None, "ClkIn", 0, None, "None", None),
            Xtal(24000000)) }

Call(entry, T, cfg) == [entry |-> entry, T |-> T, cfg |-> cfg]

PeriphCalls ==
    { Call("enable_and_reset", "CRC", NoConfig),
      Call("enable_and_reset", "WDT0", WdtConfig("LpOsc1m", "Wwdt0")),
      Call("enable", "WDT1", WdtConfig("None", "Wwdt1")),
      Call("enable_and_reset", "CTIMER0_COUNT_CHANNEL0", CtimerConfig("AudioPllClk", 0)),
      Call("enable_and_reset", "CTIMER1_COUNT_CHANNEL0", CtimerConfig("SfroClk", 1)),
      Call("enable", "CTIMER0_COUNT_CHANNEL0", CtimerConfig("MainClk", 1)) }

Disabled == {"CRC", "WDT0"}

NextPeriph ==
    \/ \E i \in PeriphInputs : init_call(i.config, i.clk_in_select)
    \/ InitSteps
    \/ \E c \in PeriphCalls : periph_call(c.entry, c.T, c.cfg)
    \/ \E T \in Disabled : periph_disable(T)
    \/ periph_post_enable_config
    \/ periph_reset_perph

SpecPeriph == Init /\ [][NextPeriph]_vars

gate_set(T) == PE("enable_perph_clock", T, 1)

\* C9: in every enable_and_reset the gate bit of T is set first, then
\* post_enable_config runs from its start to its end, then the reset of T is
\* released; the reset is released only when post_enable_config returned Ok, and
\* nowhere else.
C9_GateConfigReset ==
    /\ [](pcall # NoArgs /\ pcall.entry = "enable_and_reset" =>
            LET n == Len(pevents)
                T == pcall.T
            IN  /\ n >= 1 /\ pevents[1] = gate_set(T)
                /\ \A i \in 1..n : pevents[i].ev = "enable_perph_clock" => i = 1
                /\ \A i \in 1..n : pevents[i].ev = "post_enable_config" => i = 2
                /\ \A i \in 1..n : pevents[i].ev = "write" =>
                        /\ pevents[2] = PE("post_enable_config", T, 0)
                        /\ \E j \in (i + 1)..n : pevents[j].ev = "post_enable_config_done"
                /\ \A i \in 1..n : pevents[i].ev = "reset_perph" =>
                        /\ i = n /\ i >= 4
                        /\ pevents[i] = PE("reset_perph", T, 1)
                        /\ pevents[2] = PE("post_enable_config", T, 0)
                        /\ pevents[i - 1] = PE("post_enable_config_done", T, 1)
                        /\ is_ok(presult)
                /\ ppc = "returned" =>
                        (is_ok(presult) <=> pevents[n] = PE("reset_perph", T, 1)))
    /\ [][ released' # released
            => /\ pcall.entry = "enable_and_reset"
               /\ released' = released \cup {pcall.T}
               /\ pcall.T \in gates
               /\ is_ok(presult)
               /\ pevents[Len(pevents)] = PE("post_enable_config_done", pcall.T, 1)
               /\ pevents'[Len(pevents')] = PE("reset_perph", pcall.T, 1) ]_vars

\* enable_and_reset of WDT0 is through: gate, selector written by post_enable_config, reset
C9_Witness ==
    /\ ppc = "returned"
    /\ pcall = Call("enable_and_reset", "WDT0", WdtConfig("LpOsc1m", "Wwdt0"))
    /\ presult = Ok(F_1M_LPOSC)
    /\ pevents = << gate_set("WDT0"), PE("post_enable_config", "WDT0", 0),
                    PE("write", "WDT0FCLKSEL", 0), PE("post_enable_config_done", "WDT0", 1),
                    PE("reset_perph", "WDT0", 1) >>
    /\ "WDT0" \in released

\* C10: when enable or enable_and_reset finds the registry unpublished (init never
\* ran, is still running, or failed), it returns ClockError::Programming, does not
\* invoke post_enable_config, does not release the reset, and leaves on the
\* hardware nothing but the gate bit of the peripheral it had set already.
C10_UnpublishedIsProgramming ==
    [][ (ppc = "post_enable_config" /\ is_none(CLOCKS) /\ periphVars' # periphVars)
        => /\ presult' = prog_err("didn't call init")
           /\ ppc' = "returned"
           /\ pevents' = <<gate_set(pcall.T)>>
           /\ pcall.T \in gates
           /\ gates' = gates
           /\ released' = released
           /\ fclksel' = fclksel
           /\ regs' = regs
           /\ UNCHANGED <<CLOCKS, initVars>> ]_vars

\* enable_and_reset has failed while init was still running
C10_Witness ==
    /\ pc \notin {"idle", "returned", "panicked"}
    /\ ppc = "returned"
    /\ pcall # NoArgs
    /\ pcall.entry = "enable_and_reset"
    /\ presult = prog_err("didn't call init")
    /\ pevents = <<gate_set(pcall.T)>>
    /\ pcall.T \in gates
    /\ pcall.T \notin released

----------------------------------------------------------------------------
(* Specification of the Flexcomm function clock: a published registry, a    *)
(* Flexcomm enable call that has set its gate bit, and post_enable_config   *)

FlexcommConfig(frg, fc, instance, mult) ==
    [type |-> "FlexcommConfig", frg_clk_sel |-> frg, fc_clk_sel |-> fc,
     instance |-> instance, mult |-> mult]
FlexcommConfig14(frg, fc, mult) ==
    [type |-> "FlexcommConfig14", frg_clk_sel |-> frg, fc_clk_sel |-> fc, mult |-> mult]
FlexcommConfig15(frg, fc, mult) ==
    [type |-> "FlexcommConfig15", frg_clk_sel |-> frg, fc_clk_sel |-> fc, mult |-> mult]

FlexcommFrgSel == {"MainClk", "FrgPllClk", "SfroClk", "FfroClk", "None"}
FlexcommFclkSel == {"SfroClk", "FfroClk", "AudioPllClk", "MasterClk", "FcnFrgClk", "None"}

\* mult: u8
U8 == 0..255

\* every FRG source and every mult on each of the three config types, and the
\* function-clock sources that bypass the FRG
FlexcommCalls ==
    { Call("enable_and_reset", "FLEXCOMM0", FlexcommConfig(frg, "FcnFrgClk", 0, mult)) :
        frg \in FlexcommFrgSel, mult \in U8 }
    \cup { Call("enable_and_reset", "FLEXCOMM14", FlexcommConfig14(frg, "FcnFrgClk", mult)) :
        frg \in FlexcommFrgSel, mult \in U8 }
    \cup { Call("enable_and_reset", "FLEXCOMM15", FlexcommConfig15(frg, "FcnFrgClk", mult)) :
        frg \in FlexcommFrgSel, mult \in U8 }
    \cup { Call("enable", "FLEXCOMM0", FlexcommConfig("None", fc, 0, 0)) : fc \in FlexcommFclkSel }

\* registries a bring-up can publish: every node up (PLL x18 from 16m_irc), the
\* 16 MHz oscillator alone, a 134 217 727 Hz clock-in through the PLL to the FRG
\* at 2 147 483 632 Hz, and a 32 768 Hz clock-in through the PLL to the FRG at 514 Hz
FrgRegistries ==
    { [ _1m_lposc |-> [enabled |-> TRUE], _16m_irc |-> [enabled |-> TRUE],
        _32k_clk |-> [enabled |-> TRUE], _32k_wake_clk |-> Some(31250),
        _48_60m_irc |-> Some(48000000),
        main_pll_clk |-> Some(288000000), dsp_pll_clk |-> Some(288000000),
        aux0_pll_clk |-> Some(288000000), aux1_pll_clk |-> Some(288000000),
        clk_in |-> Some(24000000), main_clk |-> 16000000, sys_cpu_ahb_clk |-> Some(8000000),
        frg_pll_clk |-> Some(144000000), clk_out |-> Some(144000000) ],
      [ Clocks_default EXCEPT !._16m_irc = [enabled |-> TRUE], !.clk_in = Some(24000000),
                              !.main_clk = 16000000, !.sys_cpu_ahb_clk = Some(16000000) ],
      [ Clocks_default EXCEPT !._48_60m_irc = Some(60000000), !.clk_in = Some(134217727),
                              !.main_pll_clk = Some(2147483632),
                              !.main_clk = 60000000, !.sys_cpu_ahb_clk = Some(60000000),
                              !.frg_pll_clk = Some(2147483632) ],
      [ Clocks_default EXCEPT !._32k_clk = [enabled |-> TRUE], !.clk_in = Some(32768),
                              !.main_pll_clk = Some(2056),
                              !.main_clk = 32768, !.sys_cpu_ahb_clk = Some(32768),
                              !.frg_pll_clk = Some(514) ] }

\* the bring-up is over and has published; enable or enable_and_reset has set
\* the gate bit of a Flexcomm (line 1068) and stands before its critical section
InitFrg ==
    /\ CLOCKS \in { Some(c) : c \in FrgRegistries }
    /\ regs = [syscpuahbclkdiv |-> 0, frgpllclkdiv |-> 0, syspll0locktimediv2 |-> 100]
    /\ pc = "returned"
    /\ config = NoArgs
    /\ clk_in_select = NoArgs
    /\ clocks = unwrap(CLOCKS)
    /\ pll_output_freq = None
    /\ pfd_freq = 0
    /\ out_freq = 0
    /\ writes = <<>>
    /\ trace = <<>>
    /\ result = Ok(0)
    /\ calls = 1
    /\ pcall \in FlexcommCalls
    /\ ppc = "post_enable_config"
    /\ pevents = <<PE("enable_perph_clock", pcall.T, 1)>>
    /\ presult = NoResult
    /\ pcalls = 1
    /\ gates = {pcall.T}
    /\ released = {}
    /\ fclksel = [r \in SelectorRegisters |-> 7]
    /\ suspended = NoArgs
    /\ inner = NoArgs

NextFrg ==
    \/ periph_post_enable_config
    \/ periph_reset_perph

SpecFrg == InitFrg /\ [][NextFrg]_vars

\* the function-clock selector of each peripheral: WDTnFCLKSEL is the clock
\* select of WDTn, CT32BITnFCLKSEL the clock select of CTIMER n
own_fclksel(T) ==
    CASE T = "CRC" -> {}
      [] T = "WDT0" -> {"WDT0FCLKSEL"}
      [] T = "WDT1" -> {"WDT1FCLKSEL"}
      [] T = "CTIMER0_COUNT_CHANNEL0" -> {"CT32BIT0FCLKSEL"}
      [] T = "CTIMER1_COUNT_CHANNEL0" -> {"CT32BIT1FCLKSEL"}
      [] T = "FLEXCOMM0" -> {"FLEXCOMM0.FRGCLKSEL", "FLEXCOMM0.FRGCTL.mult",
                            "FLEXCOMM0.FRGCTL.div", "FLEXCOMM0.FCFCLKSEL"}
      [] T = "FLEXCOMM14" -> {"FRG14CLKSEL", "FRG14CTL.mult", "FRG14CTL.div", "FC14FCLKSEL"}
      [] T = "FLEXCOMM15" -> {"FRG15CLKSEL", "FRG15CTL.mult", "FRG15CTL.div", "FC15FCLKSEL"}

\* C11: every step of an enable, enable_and_reset or disable call for peripheral
\* T changes only hardware state that belongs to T: the clock-gate bit of T, the
\* reset bit of T and the function-clock selector of T; the gate bits, reset bits
\* and selectors of every other peripheral, and the registers of the bring-up,
\* stay as they were, so calls for two different peripherals commute.
C11_OnlyOwnHardwareState ==
    [][ periphVars' # periphVars
        => LET T == pcall'.T
           IN  /\ gates' \ {T} = gates \ {T}
               /\ released' \ {T} = released \ {T}
               /\ \A r \in DOMAIN fclksel :
                    fclksel'[r] # fclksel[r] => r \in own_fclksel(T)
               /\ regs' = regs ]_vars

\* C12: once a successful init has published the registry, no later init,
\* with_clocks, enable, enable_and_reset or disable call changes any field of
\* it: every later with_clocks query observes the same Clocks value.
C12_RegistryFrozen ==
    [][ is_some(with_clocks) => with_clocks' = with_clocks /\ CLOCKS' = CLOCKS ]_vars

\* the registry is published, a second init has been turned away and two
\* peripheral calls have run against it
C12_Witness ==
    /\ is_some(CLOCKS)
    /\ calls = 2 /\ pc = "returned" /\ result = AlreadyConfigured
    /\ pcalls = 2 /\ ppc = "returned" /\ is_ok(presult)
    /\ unwrap(with_clocks).main_clk = F_16M_IRC

\* C13: with_clocks returns None in every state in which no init call has
\* completed successfully: before the first init, while an init is in progress,
\* after an init has failed or panicked. After a successful init it hands the
\* closure the complete registry the bring-up ended with; the registry becomes
\* visible in the last step of init only, so no reader observes a partially
\* populated registry.
C13_NoneUntilPublished ==
    /\ [](pc \in {"idle", "panicked"} => with_clocks = None)
    /\ [](pc \notin {"idle", "returned", "panicked"} => with_clocks = None)
    /\ [](pc = "returned" /\ result.tag \in {"BadConfiguration", "Programming"}
            => with_clocks = None)
    /\ [](pc = "returned" /\ result.tag \in {"Ok", "AlreadyConfigured"}
            => with_clocks = Some(clocks))
    /\ [][ with_clocks' # with_clocks
            => /\ with_clocks = None
               /\ pc = "publish" /\ pc' = "returned" /\ result' = Ok(0)
               /\ with_clocks' = Some(clocks) ]_vars

\* a bring-up is under way, its own registry is partially populated, and a
\* peripheral call that looked for the registry has found none
C13_Witness ==
    /\ pc = "setup_clock_out"
    /\ clocks # Clocks_default
    /\ is_some(clocks.main_pll_clk) /\ is_none(clocks.clk_out)
    /\ with_clocks = None
    /\ ppc = "returned" /\ presult = prog_err("didn't call init")

----------------------------------------------------------------------------
(* Specification of two init invocations, one pre-empting the other *)

NextRace ==
    \/ \E i \in PeriphInputs : init_call(i.config, i.clk_in_select)
    \/ InitSteps
    \/ \E i \in PeriphInputs : init_preempt(i.config, i.clk_in_select)
    \/ init_resume

SpecRace == Init /\ [][NextRace]_vars

\* C14: under any interleaving of two init invocations the registry is written
\* at most once (every publish finds it empty), and when the pre-empting
\* invocation has brought the clocks up, the pre-empted one returns
\* AlreadyConfigured and has issued no hardware write after it was resumed.
C14_OneInitWins ==
    /\ [][ pc = "publish" /\ pc' = "returned" => is_none(CLOCKS) ]_vars
    /\ [](inner # NoArgs /\ is_ok(inner.result) /\ pc = "returned"
            => result = AlreadyConfigured)
    /\ [][ inner # NoArgs /\ is_ok(inner.result) => writes' = writes ]_vars

\* C15: in every published registry main_clk is non-zero and is the frequency
\* of the source main_clock_select names (1 000 000, 16 000 000, 32 768, the
\* FFRO frequency or a quarter of it), and sys_cpu_ahb_clk is
\* Some(main_clk / (sys_cpu_ahb_div + 1)) rounded down; 16m_irc with divider 0
\* and no PLL gives main_clk = sys_cpu_ahb_clk = 16 000 000 and no PLL clock.
C15_MainAndSystemClock ==
    is_some(CLOCKS) =>
        LET c == unwrap(CLOCKS)
            sel == config.main_clock_select
            ffro == IF config._48_60m_irc_select = "Mhz48" THEN 48000000 ELSE 60000000
            div == config.sys_cpu_ahb_div
        IN  /\ c.main_clk # 0
            /\ sel \in {"_1mLposc", "_16mIrc", "_32kClk", "_48_60MIrc", "_48_60MIrcDiv4"}
            /\ sel = "_1mLposc" => c.main_clk = 1000000
            /\ sel = "_16mIrc" => c.main_clk = 16000000
            /\ sel = "_32kClk" => c.main_clk = 32768
            /\ sel = "_48_60MIrc" => c.main_clk = ffro
            /\ sel = "_48_60MIrcDiv4" => c.main_clk = ffro \div 4
            /\ is_some(c.sys_cpu_ahb_clk)
            /\ LET q == unwrap(c.sys_cpu_ahb_clk)
               IN  q * (div + 1) <= c.main_clk /\ c.main_clk < (q + 1) * (div + 1)
            /\ (sel = "_16mIrc" /\ div = 0 /\ is_none(config.main_pll)) =>
                    /\ c.main_clk = 16000000
                    /\ c.sys_cpu_ahb_clk = Some(16000000)
                    /\ c.main_pll_clk = None /\ c.dsp_pll_clk = None
                    /\ c.aux0_pll_clk = None /\ c.aux1_pll_clk = None

\* published: the 32 768 Hz clock as main clock, divided by 3 and rounded down
C15_Witness ==
    /\ is_some(CLOCKS)
    /\ config.main_clock_select = "_32kClk" /\ config.sys_cpu_ahb_div = 2
    /\ unwrap(CLOCKS).main_clk = 32768
    /\ unwrap(CLOCKS).sys_cpu_ahb_clk = Some(10922)

\* C16 as stated: the bring-up of scenario B (16 MHz oscillator, PLL x18 from
\* it, PFD0 divider 18, main-PLL output divider 2, main clock from the PLL
\* output) ends with a published registry whose main_pll_clk is 288 000 000.
C16_ScenarioBAsStated ==
    (config = ScenarioB.config /\ pc = "returned")
        => /\ is_ok(result)
           /\ is_some(CLOCKS)
           /\ unwrap(CLOCKS).main_pll_clk = Some(288000000)

\* C16: in the bring-up of scenario B the PLL core output is 288 000 000, the
\* PFD0 frequency is 288 000 000 and the registry the bring-up is filling
\* records main_pll_clk = 288 000 000; the bring-up then stops at the main
\* clock mux with BadConfiguration and the registry is never published.
C16_ScenarioB ==
    config = ScenarioB.config =>
        /\ pc \in {"setup_pll_pfd0", "pfd0_clkrdy", "pfd0_reqflag"}
                => pll_output_freq = Some(288000000)
        /\ pc = "pfd0_reqflag" => pfd_freq = 288000000
        /\ pc \in {"setup_pll_pfd1", "setup_pll_pfd2", "setup_pll_pfd3", "setup_main_clock"}
                => clocks.main_pll_clk = Some(288000000)
        /\ pc = "returned"
                => /\ result = bad_config("Main clock uses main_pll_clk, but main_pll_clk is not active")
                   /\ clocks.main_pll_clk = Some(288000000)
                   /\ clocks.main_clk = 0
        /\ pc \notin {"setup_clock_in", "setup_main_pll", "setup_pll_pfd0", "pfd0_clkrdy",
                      "pfd0_reqflag", "setup_pll_pfd1", "setup_pll_pfd2", "setup_pll_pfd3",
                      "setup_main_clock"}
                => pc = "returned"
        /\ is_none(CLOCKS)

\* scenario B has returned: main_pll_clk computed, nothing published
C16_Witness ==
    /\ config = ScenarioB.config
    /\ pc = "returned"
    /\ result.tag = "BadConfiguration"
    /\ pll_output_freq = Some(288000000)
    /\ clocks.main_pll_clk = Some(288000000)
    /\ is_none(CLOCKS)

\* position of the first write of val to reg in the writes of the current init, 0 if none
first_write(reg, val) ==
    IF \E i \in 1..Len(writes) : writes[i] = W(reg, val)
    THEN CHOOSE i \in 1..Len(writes) :
            /\ writes[i] = W(reg, val)
            /\ \A j \in 1..(i - 1) : writes[j] # W(reg, val)
    ELSE 0

\* C17: in every bring-up whose ClockConfig has main_pll = None, the PLL input
\* mux is set to "none" (7) by setup_main_pll, then the halt write and the gate
\* write are issued for each of the four PFD outputs, no PFD is set up, and
\* main_pll_clk, dsp_pll_clk, aux0_pll_clk and aux1_pll_clk are None in the
\* registry at every point of the bring-up and in the published registry.
C17_NoPllAllPfdsOff ==
    /\ (in_bring_up /\ is_none(config.main_pll)) =>
        /\ clocks.main_pll_clk = None /\ clocks.dsp_pll_clk = None
        /\ clocks.aux0_pll_clk = None /\ clocks.aux1_pll_clk = None
        /\ pll_output_freq = None
        /\ pc \notin {"setup_clock_in", "setup_main_pll"} =>
                /\ first_write("SYSPLL0CLKSEL", 7) > 0
                /\ \A i \in 1..Len(writes) : writes[i].reg = "SYSPLL0CLKSEL" => writes[i].val = 7
        /\ pc \notin {"setup_clock_in", "setup_main_pll", "disable_pll_pfd"} =>
                \A halt_gate \in { <<"MAINPLLCLKDIV.halt", "SYSPLL0PFD.pfd0_clkgate">>,
                                    <<"DSPPLLCLKDIV.halt", "SYSPLL0PFD.pfd1_clkgate">>,
                                    <<"AUX0PLLCLKDIV.halt", "SYSPLL0PFD.pfd2_clkgate">>,
                                    <<"AUX1PLLCLKDIV.halt", "SYSPLL0PFD.pfd3_clkgate">> } :
                    /\ first_write("SYSPLL0CLKSEL", 7) < first_write(halt_gate[1], 1)
                    /\ first_write(halt_gate[1], 1) < first_write(halt_gate[2], 1)
        /\ \A i \in 1..Len(trace) :
                trace[i] \notin {"setup_pll_pfd0", "setup_pll_pfd1", "setup_pll_pfd2", "setup_pll_pfd3"}
        /\ \A i \in 1..Len(writes) :
                writes[i].reg \notin {"SYSPLL0CTL0.mult", "PDRUNCFG0_CLR.syspll_pd"}
    /\ (is_some(CLOCKS) /\ is_none(config.main_pll)) =>
        /\ unwrap(CLOCKS).main_pll_clk = None /\ unwrap(CLOCKS).dsp_pll_clk = None
        /\ unwrap(CLOCKS).aux0_pll_clk = None /\ unwrap(CLOCKS).aux1_pll_clk = None

\* a bring-up without PLL has been published: mux on "none", four PFDs halted and gated
C17_Witness ==
    /\ pc = "returned" /\ is_ok(result)
    /\ is_none(config.main_pll)
    /\ first_write("SYSPLL0CLKSEL", 7) > 0
    /\ first_write("AUX1PLLCLKDIV.halt", 1) > 0
    /\ first_write("SYSPLL0PFD.pfd3_clkgate", 1) > first_write("AUX1PLLCLKDIV.halt", 1)
    /\ is_some(CLOCKS)
    /\ unwrap(CLOCKS).main_pll_clk = None /\ unwrap(CLOCKS).aux1_pll_clk = None

\* the frequency at the PLL input mux: the 16 MHz oscillator, the clock-in the
\* caller supplied, or half the 48/60 MHz oscillator
pll_input_frequency ==
    LET sel == unwrap(config.main_pll).clock_select
    IN  CASE sel = "_16mIrc" -> 16000000
          [] sel = "ClkIn" -> clk_in_select.freq
          [] sel = "_48_60MIrcDiv2" ->
                (IF config._48_60m_irc_select = "Mhz48" THEN 48000000 ELSE 60000000) \div 2

\* C18: for every accepted PLL configuration (multiplier 16..=22, each of the
\* three input sources, whatever clock-in frequency the caller supplied) the PLL
\* core output returned by setup_main_pll is input frequency x multiplier as an
\* exact integer: the multiplication neither wraps around 2^32 nor stops the
\* program; with input 16 000 000 and multiplier 18 it is 288 000 000.
C18_PllCoreExact ==
    (in_bring_up /\ is_some(config.main_pll)) =>
        LET m == unwrap(config.main_pll).multiplier
        IN  /\ is_some(pll_output_freq) =>
                /\ m \in 16..22
                /\ unwrap(pll_output_freq) \div m = pll_input_frequency
                /\ unwrap(pll_output_freq) % m = 0
                /\ (pll_input_frequency = 16000000 /\ m = 18)
                        => unwrap(pll_output_freq) = 288000000
            /\ ~(pc = "panicked" /\ result = Panic("attempt to multiply with overflow"))

\* PFD n of the current bring-up is enabled and its two dividers are in range
pfd_valid(n) ==
    /\ config # NoArgs /\ is_some(config.main_pll)
    /\ is_some(pfd_div(unwrap(config.main_pll), n))
    /\ unwrap(pfd_div(unwrap(config.main_pll), n)) \in 12..35
    /\ pll_clock_divider(unwrap(config.main_pll), n) \in 1..256

\* floor(p * 18 / d), from the quotient and the remainder of p by d
floor_times18_over(p, d) == 18 * (p \div d) + (18 * (p % d)) \div d

\* C19: for each enabled PFD with valid dividers, the PFD frequency the code
\* computes is floor(pll_core_output * 18 / pfd_div), which is pll_core_output
\* when pfd_div = 18, and once setup_pll_pfdN is over the registry holds
\* floor(pfd_frequency / (output_divider - 1)) for that PFD.
C19_PfdFrequencies ==
    \A n \in 0..3 :
        (in_bring_up /\ pfd_valid(n) /\ is_some(pll_output_freq)) =>
            LET mp == unwrap(config.main_pll)
                d == unwrap(pfd_div(mp, n))
                cd == pll_clock_divider(mp, n)
                core == unwrap(pll_output_freq)
                pfd == floor_times18_over(core, d)
            IN  /\ pc = pfd_reqflag_pc(n) =>
                    /\ pfd_freq = pfd
                    /\ d = 18 => pfd_freq = core
                /\ (entered(pfd_pc(n)) /\ pc \notin {pfd_pc(n), pfd_clkrdy_pc(n), pfd_reqflag_pc(n)}) =>
                    /\ is_some(pll_clk(clocks, n))
                    /\ LET q == unwrap(pll_clk(clocks, n))
                       IN  q * (cd - 1) <= pfd /\ pfd < (q + 1) * (cd - 1)

\* the frequency the registry holds for the FRG source sel (0 for "none")
frg_input(c, sel) ==
    CASE sel = "MainClk" -> c.main_clk
      [] sel = "FrgPllClk" -> unwrap(c.frg_pll_clk)
      [] sel = "SfroClk" -> 16000000
      [] sel = "FfroClk" -> unwrap(c._48_60m_irc)
      [] sel = "None" -> 0

\* C20: for every Flexcomm-family config (FlexcommConfig, FlexcommConfig14,
\* FlexcommConfig15) that selects the FRG output, every FRG input frequency and
\* every mult in 0..=255, the function clock returned is
\* floor(frg_input * 256 / (256 + mult)), that is r with
\* 0 <= 256 * frg_input - r * (256 + mult) < 256 + mult; it is frg_input when
\* mult = 0 and never exceeds frg_input.
C20_FrgOutput ==
    (/\ ppc \in {"reset_perph", "returned"}
     /\ pcall.cfg.type \in {"FlexcommConfig", "FlexcommConfig14", "FlexcommConfig15"}
     /\ pcall.cfg.fc_clk_sel = "FcnFrgClk"
     /\ is_ok(presult)) =>
        LET f == frg_input(unwrap(CLOCKS), pcall.cfg.frg_clk_sel)
            mult == pcall.cfg.mult
            r == presult.val
            \* 256 * f - r * (256 + mult) = 256 * t - (r % 256) * mult
            t == (f - r) - (r \div 256) * mult
        IN  /\ r >= 0 /\ r <= f
            /\ t \in 0..1000
            /\ 256 * t - (r % 256) * mult \in 0..(255 + mult)
            /\ mult = 0 => r = f

\* FLEXCOMM14 on the FRG at 2 147 483 632 Hz with mult 255
C20_Witness ==
    /\ ppc = "returned"
    /\ pcall = Call("enable_and_reset", "FLEXCOMM14", FlexcommConfig14("FrgPllClk", "FcnFrgClk", 255))
    /\ unwrap(CLOCKS).frg_pll_clk = Some(2147483632)
    /\ presult = Ok(1075843072)
    /\ fclksel["FRG14CTL.mult"] = 255
    /\ "FLEXCOMM14" \in released

----------------------------------------------------------------------------
(* The main clock sources that are not wired up *)

\* C21: once setup_main_clock has run with main_clock_select ClkIn or MainPllClk,
\* init has returned BadConfiguration, whether or not clk_in or main_pll_clk is
\* in the registry; main_clk is still 0, neither MAINCLKSELA nor MAINCLKSELB was
\* written, and nothing was published
C21_UnwiredMainClock ==
    (entered("setup_main_clock") /\ config.main_clock_select \in {"ClkIn", "MainPllClk"}) =>
        /\ pc = "returned"
        /\ result.tag = "BadConfiguration"
        /\ clocks.main_clk = 0
        /\ ~wrote("MAINCLKSELA")
        /\ ~wrote("MAINCLKSELB")
        /\ CLOCKS = None

\* the main clock asks for the PLL output, which the registry holds, and init failed
C21_Witness ==
    /\ entered("setup_main_clock")
    /\ config.main_clock_select = "MainPllClk"
    /\ is_some(clocks.main_pll_clk)
    /\ is_some(clocks.clk_in)
    /\ result.tag = "BadConfiguration"
    /\ pc = "returned"

----------------------------------------------------------------------------
(* Clock-out *)

ClockOutRegisters == {"CLKOUTSEL0", "CLKOUTSEL1", "CLKOUTDIV.halt", "CLKOUTDIV.div"}

\* C22: once setup_clock_out has run with clk_out_div Some and clk_out_select
\* DspMainClk or AudioPllClk, init has returned ClockError::Programming, no
\* clock-out mux or divider register was written and clk_out is None
C22_UnimplementedClockOut ==
    ( /\ entered("setup_clock_out")
      /\ is_some(config.clk_out_div)
      /\ config.clk_out_select \in {"DspMainClk", "AudioPllClk"} ) =>
        /\ pc = "returned"
        /\ result.tag = "Programming"
        /\ \A r \in ClockOutRegisters : ~wrote(r)
        /\ clocks.clk_out = None
        /\ CLOCKS = None

\* the audio PLL was asked for with a divider and init failed in setup_clock_out
C22_Witness ==
    /\ entered("setup_clock_out")
    /\ config.clk_out_div = Some(1)
    /\ config.clk_out_select = "AudioPllClk"
    /\ result = prog_err("audio_pll_clk not implemented")
    /\ pc = "returned"

\* the ten implemented clock-out sources
ImplementedClockOutSources ==
    {"M16Irc", "ClkIn", "M1Lposc", "M4860Irc", "MainClk", "MainPllClk", "Aux0PllClk",
     "DspPllClk", "Aux1PllClk", "K32Clk"}

\* the frequency of a clock-out source in registry c, None when it is not active
clk_out_source_frequency(c, sel) ==
    CASE sel = "M16Irc" -> as_option(c._16m_irc, F_16M_IRC)
      [] sel = "ClkIn" -> c.clk_in
      [] sel = "M1Lposc" -> as_option(c._1m_lposc, F_1M_LPOSC)
      [] sel = "M4860Irc" -> c._48_60m_irc
      [] sel = "MainClk" -> Some(c.main_clk)
      [] sel = "MainPllClk" -> c.main_pll_clk
      [] sel = "Aux0PllClk" -> c.aux0_pll_clk
      [] sel = "DspPllClk" -> c.dsp_pll_clk
      [] sel = "Aux1PllClk" -> c.aux1_pll_clk
      [] sel = "K32Clk" -> as_option(c._32k_clk, F_32K_CLK)

\* the mux settings of a source: <<CLKOUTSEL0, CLKOUTSEL1>>, 0 in CLKOUTSEL1 being
\* the output of CLKOUTSEL0 and -1 a mux the source does not pass through
clk_out_mux(sel) ==
    CASE sel = "M16Irc" -> <<0, 0>>
      [] sel = "ClkIn" -> <<1, 0>>
      [] sel = "M1Lposc" -> <<2, 0>>
      [] sel = "M4860Irc" -> <<3, 0>>
      [] sel = "MainClk" -> <<4, 0>>
      [] sel = "MainPllClk" -> <<-1, 1>>
      [] sel = "Aux0PllClk" -> <<-1, 2>>
      [] sel = "DspPllClk" -> <<-1, 3>>
      [] sel = "Aux1PllClk" -> <<-1, 4>>
      [] sel = "K32Clk" -> <<-1, 6>>

\* the value register reg holds after the writes of this bring-up, -1 when it was
\* not written
last_written(reg) ==
    IF wrote(reg)
    THEN writes[CHOOSE i \in 1..Len(writes) :
                    /\ writes[i].reg = reg
                    /\ \A j \in (i + 1)..Len(writes) : writes[j].reg # reg].val
    ELSE -1

\* C23: once setup_clock_out has returned with clk_out_div = Some(d) and one of
\* the ten implemented sources selected, either that source is not active in
\* the registry and init has failed with BadConfiguration, or the clock-out
\* muxes select that source and clk_out = Some(floor(its frequency / (1 + d)))
C23_ClockOutSource ==
    ( /\ entered("setup_clock_out")
      /\ pc \in {"publish", "returned"}
      /\ is_some(config.clk_out_div)
      /\ config.clk_out_select \in ImplementedClockOutSources ) =>
        LET src == clk_out_source_frequency(clocks, config.clk_out_select)
            mux == clk_out_mux(config.clk_out_select)
        IN  IF is_none(src)
            THEN /\ pc = "returned"
                 /\ result.tag = "BadConfiguration"
                 /\ clocks.clk_out = None
            ELSE /\ ~is_error(result)
                 /\ last_written("CLKOUTSEL0") = mux[1]
                 /\ last_written("CLKOUTSEL1") = mux[2]
                 /\ clocks.clk_out = Some(unwrap(src) \div (1 + unwrap(config.clk_out_div)))

----------------------------------------------------------------------------
(* Specification of the per-peripheral config objects: a published registry, *)
(* an enable call that has set its gate bit, and post_enable_config          *)

AdcConfig(sel0, sel1, div) == [type |-> "AdcConfig", sel0 |-> sel0, sel1 |-> sel1, div |-> div]
Sct0Config(source, div) == [type |-> "Sct0Config", source |-> source, div |-> div]

AdcSel0 == {"SfroClk", "XtalinClk", "Lposc", "FfroClk", "None"}
AdcSel1 == {"Adc0fclksel0MuxOut", "Syspll0MainClk", "Syspll0Aux0PllClock",
            "Syspll0Aux1PllClock", "None"}
SCTClockSource == {"Main", "MainPLL", "AUX0PLL", "FFRO", "AUX1PLL", "AudioPLL", "None"}
WdtClkSel == {"LpOsc1m", "None"}
CTimerSel == {"MainClk", "SfroClk", "FfroClk", "AudioPllClk", "MasterClk", "Lposc", "None"}

\* every source of every config type, with its two entry points
ConfCalls ==
    { Call(entry, "FLEXCOMM0", FlexcommConfig(frg, fc, 0, mult)) :
        entry \in {"enable", "enable_and_reset"}, frg \in FlexcommFrgSel,
        fc \in FlexcommFclkSel, mult \in {0, 255} }
    \cup { Call("enable", "FLEXCOMM14", FlexcommConfig14(frg, fc, 1)) :
        frg \in FlexcommFrgSel, fc \in FlexcommFclkSel }
    \cup { Call("enable", "FLEXCOMM15", FlexcommConfig15(frg, fc, 1)) :
        frg \in FlexcommFrgSel, fc \in FlexcommFclkSel }
    \cup { Call(entry, "ADC0", AdcConfig(sel0, sel1, div)) :
        entry \in {"enable", "enable_and_reset"}, sel0 \in AdcSel0, sel1 \in AdcSel1,
        div \in {0, 3, 255} }
    \cup { Call(entry, "SCT0", Sct0Config(source, div)) :
        entry \in {"enable", "enable_and_reset"}, source \in SCTClockSource,
        div \in {0, 3, 255} }
    \cup { Call(entry, T[1], CtimerConfig(source, T[2])) :
        entry \in {"enable", "enable_and_reset"},
        T \in { <<"CTIMER0_COUNT_CHANNEL0", 0>>, <<"CTIMER1_COUNT_CHANNEL0", 1>> },
        source \in CTimerSel }

\* the watchdogs, whose instance is a name and not a number
ConfWdtCalls ==
    { Call("enable_and_reset", "WDT0", WdtConfig(source, "Wwdt0")) : source \in WdtClkSel }
    \cup { Call("enable_and_reset", "WDT1", WdtConfig(source, "Wwdt1")) :
             source \in WdtClkSel }

\* registries a bring-up can publish with a 24 MHz crystal, the main clock on the
\* 32 kHz oscillator, PLL x16 from the crystal, the PFDs in `on` at divider 18
\* with output divider 3, and the FRG divider 1 when frg is set
ConfRegistry(e1m, e16m, irc, on, frg) ==
    [ Clocks_default EXCEPT
        !._1m_lposc = [enabled |-> e1m], !._16m_irc = [enabled |-> e16m],
        !._32k_clk = [enabled |-> TRUE], !._48_60m_irc = freq(irc),
        !.clk_in = Some(24000000),
        !.main_pll_clk = IF 0 \in on THEN Some(192000000) ELSE None,
        !.dsp_pll_clk = IF 1 \in on THEN Some(192000000) ELSE None,
        !.aux0_pll_clk = IF 2 \in on THEN Some(192000000) ELSE None,
        !.aux1_pll_clk = IF 3 \in on THEN Some(192000000) ELSE None,
        !.main_clk = 32768, !.sys_cpu_ahb_clk = Some(32768),
        !.frg_pll_clk = IF frg /\ 0 \in on THEN Some(96000000) ELSE None ]

\* what an earlier enable left in the selector registers: input 0, or "none"
PriorSelections == {0, 7}

ConfRegistries ==
    { ConfRegistry(e1m, e16m, irc, on, frg) :
        e1m \in BOOLEAN, e16m \in BOOLEAN, irc \in _48_60mIrcSelect,
        on \in { {}, {0}, {2}, {3}, {0, 1, 2, 3} }, frg \in BOOLEAN }

\* the bring-up is over and has published; enable or enable_and_reset has set
\* the gate bit of the peripheral (line 1068) and stands before its critical section
InitConf ==
    /\ CLOCKS \in { Some(c) : c \in ConfRegistries }
    /\ regs = [syscpuahbclkdiv |-> 0, frgpllclkdiv |-> 0, syspll0locktimediv2 |-> 100]
    /\ pc = "returned"
    /\ config = NoArgs
    /\ clk_in_select = NoArgs
    /\ clocks = unwrap(CLOCKS)
    /\ pll_output_freq = None
    /\ pfd_freq = 0
    /\ out_freq = 0
    /\ writes = <<>>
    /\ trace = <<>>
    /\ result = Ok(0)
    /\ calls = 1
    /\ (pcall \in ConfCalls \/ pcall \in ConfWdtCalls)
    /\ ppc = "post_enable_config"
    /\ pevents = <<PE("enable_perph_clock", pcall.T, 1)>>
    /\ presult = NoResult
    /\ pcalls = 1
    /\ gates = {pcall.T}
    /\ released = {}
    /\ fclksel \in { [r \in SelectorRegisters |-> v] : v \in PriorSelections }
    /\ suspended = NoArgs
    /\ inner = NoArgs

NextConf ==
    \/ periph_post_enable_config
    \/ periph_reset_perph

SpecConf == InitConf /\ [][NextConf]_vars

\* the registry node a config object takes its clock from: "main_clk", "none",
\* "unimplemented" (audio PLL, mclk_in) or a field of Clocks.  Stage 1 of the ADC
\* mux selects the main PLL clock with Syspll0MainClk (input 001), and the
\* Flexcomm function clock is the FRG input when it goes through the FRG
config_source(cfg) ==
    CASE cfg.type \in {"FlexcommConfig", "FlexcommConfig14", "FlexcommConfig15"} ->
            ( CASE cfg.fc_clk_sel = "FcnFrgClk" ->
                    ( CASE cfg.frg_clk_sel = "MainClk" -> "main_clk"
                        [] cfg.frg_clk_sel = "FrgPllClk" -> "frg_pll_clk"
                        [] cfg.frg_clk_sel = "SfroClk" -> "_16m_irc"
                        [] cfg.frg_clk_sel = "FfroClk" -> "_48_60m_irc"
                        [] cfg.frg_clk_sel = "None" -> "none" )
                [] cfg.fc_clk_sel = "SfroClk" -> "_16m_irc"
                [] cfg.fc_clk_sel = "FfroClk" -> "_48_60m_irc"
                [] cfg.fc_clk_sel \in {"AudioPllClk", "MasterClk"} -> "unimplemented"
                [] cfg.fc_clk_sel = "None" -> "none" )
      [] cfg.type = "AdcConfig" ->
            ( CASE cfg.sel1 = "Adc0fclksel0MuxOut" ->
                    ( CASE cfg.sel0 = "SfroClk" -> "_16m_irc"
                        [] cfg.sel0 = "XtalinClk" -> "clk_in"
                        [] cfg.sel0 = "Lposc" -> "_1m_lposc"
                        [] cfg.sel0 = "FfroClk" -> "_48_60m_irc"
                        [] cfg.sel0 = "None" -> "none" )
                [] cfg.sel1 = "Syspll0MainClk" -> "main_pll_clk"
                [] cfg.sel1 = "Syspll0Aux0PllClock" -> "aux0_pll_clk"
                [] cfg.sel1 = "Syspll0Aux1PllClock" -> "aux1_pll_clk"
                [] cfg.sel1 = "None" -> "none" )
      [] cfg.type = "Sct0Config" ->
            ( CASE cfg.source = "Main" -> "main_clk"
                [] cfg.source = "MainPLL" -> "main_pll_clk"
                [] cfg.source = "AUX0PLL" -> "aux0_pll_clk"
                [] cfg.source = "FFRO" -> "_48_60m_irc"
                [] cfg.source = "AUX1PLL" -> "aux1_pll_clk"
                [] cfg.source = "AudioPLL" -> "unimplemented"
                [] cfg.source = "None" -> "none" )
      [] cfg.type = "WdtConfig" ->
            ( CASE cfg.source = "LpOsc1m" -> "_1m_lposc"
                [] cfg.source = "None" -> "none" )
      [] cfg.type = "CtimerConfig" ->
            ( CASE cfg.source = "MainClk" -> "main_clk"
                [] cfg.source = "SfroClk" -> "_16m_irc"
                [] cfg.source = "FfroClk" -> "_48_60m_irc"
                [] cfg.source \in {"AudioPllClk", "MasterClk"} -> "unimplemented"
                [] cfg.source = "Lposc" -> "_1m_lposc"
                [] cfg.source = "None" -> "none" )

node_active(c, node) ==
    CASE node = "_1m_lposc" -> c._1m_lposc.enabled
      [] node = "_16m_irc" -> c._16m_irc.enabled
      [] node = "_48_60m_irc" -> is_some(c._48_60m_irc)
      [] node = "clk_in" -> is_some(c.clk_in)
      [] node = "main_pll_clk" -> is_some(c.main_pll_clk)
      [] node = "aux0_pll_clk" -> is_some(c.aux0_pll_clk)
      [] node = "aux1_pll_clk" -> is_some(c.aux1_pll_clk)
      [] node = "frg_pll_clk" -> is_some(c.frg_pll_clk)

wrote_selector == \E i \in 1..Len(pevents) : pevents[i].ev = "write"

\* C24: for every per-peripheral config object, once post_enable_config has
\* returned: with the main clock as source it has succeeded; with "none" it has
\* returned frequency 0; with any other source it has succeeded only if that
\* source is active in the published registry, and if the source is absent it
\* has returned BadConfiguration without writing a selector or divider register
C24_SourceValidated ==
    (is_some(CLOCKS) /\ pcall # NoArgs /\ ppc \in {"reset_perph", "returned"}
        /\ pcall.cfg.type # "NoConfig" /\ presult # NoResult) =>
        LET src == config_source(pcall.cfg)
        IN  CASE src = "main_clk" -> is_ok(presult)
              [] src = "none" -> presult = Ok(0)
              [] src = "unimplemented" -> ~is_ok(presult) /\ ~wrote_selector
              [] OTHER ->
                    IF node_active(unwrap(CLOCKS), src)
                    THEN is_ok(presult)
                    ELSE presult.tag = "BadConfiguration" /\ ~wrote_selector

----------------------------------------------------------------------------
(* The order of the writes of setup_main_pll *)

\* C25: in every execution of setup_main_pll (PLL absent, multiplier invalid or
\* PLL valid) the first write of the function is the power-down of the PLL LDO
\* and analog domains, and no write to the PLL input mux, multiplier, num,
\* denom or power-up register comes before it
C25_PowerDownFirst ==
    [][ (pc = "setup_main_pll" /\ pc' # "setup_main_pll") =>
            /\ Len(writes') > Len(writes)
            /\ SubSeq(writes', 1, Len(writes)) = writes
            /\ writes'[Len(writes) + 1] = W("PDRUNCFG0_SET.syspll_pd", 1)
            /\ \A i \in 1..Len(writes') :
                    writes'[i].reg \in PllRegisters => i > Len(writes) + 1 ]_vars

\* setup_main_pll has rejected the multiplier after switching the PLL off
C25_Witness ==
    /\ pc = "returned"
    /\ result = bad_config("main pll multiplier out of allowed range")
    /\ writes[Len(writes)] = W("PDRUNCFG0_SET.syspll_pd", 1)
    /\ \A r \in PllRegisters : ~wrote(r)

PfdRegisters ==
    UNION { { pfd_field(n), pfd_clkgate(n), pfd_clkrdy(n), pllclkdiv(n), pllclkdiv_halt(n) } :
            n \in 0..3 }

\* the writes of an enabled PLL, from the input mux to the end of the second delay
pll_enable_sequence ==
    LET mp == unwrap(config.main_pll)
        lock == 300 * regs.syspll0locktimediv2
    IN  << W("SYSPLL0CLKSEL", MainPllClockSelect_bits(mp.clock_select)),
           W("SYSPLL0NUM", 0), W("SYSPLL0DENOM", 1),
           W("SYSPLL0CTL0.mult", mp.multiplier), W("SYSPLL0CTL0.holdringoff_ena", 1),
           W("PDRUNCFG0_CLR.syspll_pd", 1), W("delay", lock),
           W("SYSPLL0CTL0.holdringoff_ena", 0), W("delay", lock) >>

\* C26: when setup_main_pll has enabled the PLL, its writes are, one after the
\* other: input mux select, num = 0, denom = 1, CTL0 with the multiplier and
\* holdringoff enabled, power-up, a delay of 300 x lock time, holdringoff
\* disabled, a second delay of 300 x lock time; and every write to a PFD or to
\* a PLL output divider comes after the second delay
C26_PllLockSequence ==
    (entered("setup_main_pll") /\ is_some(pll_output_freq)) =>
        \E k \in 1..Len(writes) :
            /\ k + 8 <= Len(writes)
            /\ SubSeq(writes, k, k + 8) = pll_enable_sequence
            /\ \A i \in 1..Len(writes) :
                    /\ writes[i].reg \in PfdRegisters => i > k + 8
                    /\ writes[i].reg \in PllRegisters => i \in k..(k + 8)

\* a bring-up with the PLL has programmed PFD0 and has published
C26_Witness ==
    /\ pc = "returned" /\ is_ok(result) /\ is_some(CLOCKS)
    /\ is_some(pll_output_freq)
    /\ wrote("SYSPLL0PFD.pfd0")
    /\ wrote("delay")

----------------------------------------------------------------------------
(* The four PFD outputs *)

\* C27: for each N, when pfdN_div is None setup_pll_pfdN halts the output
\* divider of PFD N, gates PFD N, sets its registry field to None and returns
\* Ok, whatever the other three PFDs are configured as; and no step of setting
\* up or disabling PFD N changes the registry fields of the other three PFDs
C27_PfdsIndependent ==
    [][ \A n \in 0..3 :
            /\ (pc = pfd_pc(n) /\ is_none(pfd_div(unwrap(config.main_pll), n))) =>
                    /\ writes' = writes \o << W(pllclkdiv_halt(n), 1), W(pfd_clkgate(n), 1) >>
                    /\ pll_clk(clocks', n) = None
                    /\ pc' = after_pfd(n)
                    /\ result' = result
            /\ (pc \in {pfd_pc(n), pfd_clkrdy_pc(n), pfd_reqflag_pc(n)}) =>
                    \A m \in (0..3) \ {n} : pll_clk(clocks', m) = pll_clk(clocks, m) ]_vars

\* PFD1 was switched off between three PFDs that run, and the bring-up has published
C27_Witness ==
    /\ pc = "returned" /\ is_ok(result) /\ is_some(CLOCKS)
    /\ is_some(config.main_pll)
    /\ unwrap(config.main_pll).pfd1_div = None
    /\ clocks.dsp_pll_clk = None
    /\ is_some(clocks.main_pll_clk) /\ is_some(clocks.aux0_pll_clk) /\ is_some(clocks.aux1_pll_clk)
    /\ wrote("DSPPLLCLKDIV.halt") /\ wrote("SYSPLL0PFD.pfd1_clkgate")

----------------------------------------------------------------------------
(* The FRG PLL divider and the wake clock *)

\* C28: setup_frg_pll_div with frg_clk_pll_div = None touches no register and
\* leaves frg_pll_clk None; with Some(d) it fails with BadConfiguration when
\* main_pll_clk is None, and otherwise writes FRGPLLCLKDIV only if the register
\* holds another value than d, waits for the request flag, and records
\* frg_pll_clk = Some(floor(main_pll_clk / (d + 1)))
C28_FrgPllDivider ==
    [][ /\ pc = "setup_frg_pll_div" =>
            IF is_none(config.frg_clk_pll_div)
            THEN /\ writes' = writes /\ regs' = regs /\ clocks' = clocks
                 /\ clocks.frg_pll_clk = None
                 /\ pc' = "ensure_core_clocks"
            ELSE IF is_none(clocks.main_pll_clk)
            THEN /\ pc' = "returned" /\ result'.tag = "BadConfiguration"
                 /\ writes' = writes /\ regs' = regs /\ clocks' = clocks
            ELSE IF regs.frgpllclkdiv # unwrap(config.frg_clk_pll_div)
            THEN /\ writes' = Append(writes, W("FRGPLLCLKDIV", unwrap(config.frg_clk_pll_div)))
                 /\ regs'.frgpllclkdiv = unwrap(config.frg_clk_pll_div)
                 /\ pc' = "frgpllclkdiv_reqflag"
                 /\ clocks' = clocks
            ELSE /\ writes' = writes /\ regs' = regs
                 /\ pc' = "ensure_core_clocks"
                 /\ clocks' = [clocks EXCEPT !.frg_pll_clk =
                        Some(unwrap(clocks.main_pll_clk) \div (unwrap(config.frg_clk_pll_div) + 1))]
        /\ pc = "frgpllclkdiv_reqflag" =>
            /\ writes' = writes /\ regs' = regs
            /\ pc' = "ensure_core_clocks"
            /\ clocks' = [clocks EXCEPT !.frg_pll_clk =
                    Some(unwrap(clocks.main_pll_clk) \div (unwrap(config.frg_clk_pll_div) + 1))]
      ]_vars

\* the divider register was rewritten from 0 to 1 and 144 MHz / 2 was published
C28_Witness ==
    /\ pc = "returned" /\ is_ok(result) /\ is_some(CLOCKS)
    /\ config.frg_clk_pll_div = Some(1)
    /\ wrote("FRGPLLCLKDIV")
    /\ unwrap(CLOCKS).main_pll_clk = Some(144000000)
    /\ unwrap(CLOCKS).frg_pll_clk = Some(72000000)

\* C29: setup_32k_wake_clk records _32k_wake_clk = None and returns 0 for Off,
\* Some(32 768) for _32kClk and Some(31 250) for Lp32k; it writes the wake-clock
\* mux after the selected source was resolved, so that with the source missing
\* it fails with BadConfiguration and WAKECLK32KHZSEL is not written
C29_WakeClock ==
    [][ pc = "setup_32k_wake_clk" =>
            LET sel == config._32k_wake_clk_select
                ok(f, mux) ==
                    /\ step_result = Ok(f)
                    /\ clocks'._32k_wake_clk = IF f = 0 THEN None ELSE Some(f)
                    /\ writes' = Append(writes, W("WAKECLK32KHZSEL", mux))
                    /\ pc' = "setup_clock_out"
                missing ==
                    /\ pc' = "returned"
                    /\ result'.tag = "BadConfiguration"
                    /\ writes' = writes
                    /\ clocks'._32k_wake_clk = None
            IN  CASE sel = "Off" -> ok(0, 7)
                  [] sel = "_32kClk" -> IF clocks._32k_clk.enabled THEN ok(32768, 0) ELSE missing
                  [] sel = "Lp32k" -> IF clocks._1m_lposc.enabled THEN ok(31250, 1) ELSE missing
      ]_vars

\* the wake clock runs from the 1 MHz oscillator and the bring-up has published
C29_Witness ==
    /\ pc = "returned" /\ is_ok(result) /\ is_some(CLOCKS)
    /\ config._32k_wake_clk_select = "Lp32k"
    /\ unwrap(CLOCKS)._32k_wake_clk = Some(31250)
    /\ writes[Len(writes) - 1] = W("WAKECLK32KHZSEL", 1)

----------------------------------------------------------------------------
(* The root oscillators in the published registry *)

\* C30: in every published registry each root oscillator is active exactly
\* when the ClockConfig enables it, selected by a consumer or not: _1m_lposc,
\* _16m_irc and _32k_clk are enabled as their enable flags say, and _48_60m_irc
\* is None for Off, Some(48 000 000) for Mhz48 and Some(60 000 000) for Mhz60;
\* and init never returns an error out of the activations at the end of the
\* bring-up
C30_OscillatorsAsConfigured ==
    /\ is_some(CLOCKS) =>
        LET c == unwrap(CLOCKS)
        IN  /\ c._1m_lposc.enabled = config.enable_1m_lposc
            /\ c._16m_irc.enabled = config.enable_16m_irc
            /\ c._32k_clk.enabled = config.enable_32k_clk
            /\ c._48_60m_irc = CASE config._48_60m_irc_select = "Off" -> None
                                 [] config._48_60m_irc_select = "Mhz48" -> Some(48000000)
                                 [] config._48_60m_irc_select = "Mhz60" -> Some(60000000)
    /\ (pc \in {"returned", "panicked"} /\ Len(trace) > 0) =>
            trace[Len(trace)] # "ensure_core_clocks"

\* the 16 MHz oscillator is enabled and published though nothing selects it,
\* and the activations of the disabled 1 MHz and 48/60 MHz oscillators failed
C30_Witness ==
    /\ pc = "returned" /\ is_ok(result) /\ is_some(CLOCKS)
    /\ config.main_clock_select = "_32kClk"
    /\ is_none(config.main_pll)
    /\ config._32k_wake_clk_select = "Off"
    /\ config.enable_16m_irc /\ unwrap(CLOCKS)._16m_irc.enabled
    /\ ~config.enable_1m_lposc /\ ~unwrap(CLOCKS)._1m_lposc.enabled
    /\ config._48_60m_irc_select = "Off" /\ unwrap(CLOCKS)._48_60m_irc = None
    /\ entered("ensure_core_clocks")

----------------------------------------------------------------------------
(* The two-stage mux of the ADC *)

\* the frequency AdcConfig::post_enable_config reads from the registry for a
\* selection (lines 1418-1434); Syspll0MainClk reads main_clk
adc_source_frequency(cfg, c) ==
    CASE cfg.sel1 = "Adc0fclksel0MuxOut" ->
            ( CASE cfg.sel0 = "SfroClk" -> 16000000
                [] cfg.sel0 = "XtalinClk" -> unwrap(c.clk_in)
                [] cfg.sel0 = "Lposc" -> 1000000
                [] cfg.sel0 = "FfroClk" -> unwrap(c._48_60m_irc)
                [] cfg.sel0 = "None" -> 0 )
      [] cfg.sel1 = "Syspll0MainClk" -> c.main_clk
      [] cfg.sel1 = "Syspll0Aux0PllClock" -> unwrap(c.aux0_pll_clk)
      [] cfg.sel1 = "Syspll0Aux1PllClock" -> unwrap(c.aux1_pll_clk)
      [] cfg.sel1 = "None" -> 0

adc_returned_ok ==
    /\ is_some(CLOCKS) /\ pcall # NoArgs /\ pcall.cfg.type = "AdcConfig"
    /\ ppc \in {"reset_perph", "returned"}
    /\ presult # NoResult /\ is_ok(presult)

C32_AdcMainPll ==
    (is_some(CLOCKS) /\ pcall # NoArgs /\ pcall.cfg.type = "AdcConfig"
        /\ ppc \in {"reset_perph", "returned"} /\ presult # NoResult
        /\ pcall.cfg.sel1 = "Syspll0MainClk") =>
        LET c == unwrap(CLOCKS)
        IN  IF is_some(c.main_pll_clk)
            THEN presult = Ok(unwrap(c.main_pll_clk) \div (1 + pcall.cfg.div))
            ELSE presult.tag = "BadConfiguration"

----------------------------------------------------------------------------
(* Function-clock sources that are not implemented *)

\* the sources the config objects reject outright: clocks.rs 1232-1233 (Flexcomm
\* family), 1537-1540 (SCTimer), 1649-1650 (counter-timers)
unimplemented_source(cfg) ==
    CASE cfg.type \in {"FlexcommConfig", "FlexcommConfig14", "FlexcommConfig15"} ->
            cfg.fc_clk_sel \in {"AudioPllClk", "MasterClk"}
      [] cfg.type = "CtimerConfig" -> cfg.source \in {"AudioPllClk", "MasterClk"}
      [] cfg.type = "Sct0Config" -> cfg.source = "AudioPLL"
      [] OTHER -> FALSE

\* C33: once post_enable_config has returned for a config object whose source
\* is the audio PLL or the master clock (counter-timer, Flexcomm family) or the
\* audio PLL (SCTimer), the call is over with ClockError::Programming, no
\* selector or divider register has been written, every selector register
\* holds what it held before the call, and the reset of the peripheral has not
\* been released
C33_UnimplementedSource ==
    (pcall # NoArgs /\ presult # NoResult /\ unimplemented_source(pcall.cfg)) =>
        /\ presult.tag = "Programming"
        /\ ppc = "returned"
        /\ ~wrote_selector
        /\ \E v \in {0, 7} : \A r \in DOMAIN fclksel : fclksel[r] = v
        /\ pcall.T \notin released
        /\ \A i \in 1..Len(pevents) : pevents[i].ev # "reset_perph"

\* enable_and_reset of a counter-timer from the master clock has returned the
\* programming error
C33_Witness ==
    /\ pcall # NoArgs /\ pcall.entry = "enable_and_reset"
    /\ pcall.cfg.type = "CtimerConfig" /\ pcall.cfg.source = "MasterClk"
    /\ ppc = "returned" /\ presult.tag = "Programming"
    /\ pcall.T \in gates /\ pcall.T \notin released

----------------------------------------------------------------------------
(* Termination of init *)

\* the bring-up with progress: the code runs on, and every polled flag (PFD
\* ready, divider request flags) reaches the awaited value, so that no step of
\* init stays enabled for ever without being taken; the caller need not call
SpecLive == Init /\ [][Next]_vars /\ WF_vars(InitSteps)

\* C34: with every polled hardware flag eventually reaching the awaited value,
\* every init call eventually returns, with Ok or with a ClockError, whatever
\* the ClockConfig
C34_InitReturns ==
    (pc \notin {"idle", "returned"}) ~>
        (pc = "returned"
            /\ result.tag \in {"Ok", "BadConfiguration", "Programming", "AlreadyConfigured"})

----------------------------------------------------------------------------
(* The CPU/AHB clock divider *)

\* C35: the step of setup_system_clock that ends at the reqflag loop or at the
\* end of the function writes the CPU/AHB divider register exactly when the
\* value read from the hardware differs from sys_cpu_ahb_div; when it writes,
\* sys_cpu_ahb_clk is still unrecorded while the request flag is awaited and is
\* recorded by the step that observes the flag clear; when it does not write,
\* sys_cpu_ahb_clk is recorded at once; and setup_system_clock is entered only
\* from a setup_main_clock that has succeeded
C35_SystemClockDivider ==
    [][ /\ (pc = "setup_system_clock" /\ pc' # pc) =>
            LET differs == regs.syscpuahbclkdiv # config.sys_cpu_ahb_div
                written == /\ Len(writes') = Len(writes) + 1
                           /\ writes'[Len(writes')] =
                                W("SYSCPUAHBCLKDIV", config.sys_cpu_ahb_div)
            IN  /\ differs <=> written
                /\ ~differs => writes' = writes
                /\ differs =>
                    /\ pc' = "syscpuahbclkdiv_reqflag"
                    /\ clocks'.sys_cpu_ahb_clk = None
                    /\ regs'.syscpuahbclkdiv = config.sys_cpu_ahb_div
                /\ ~differs =>
                    /\ pc' = "setup_frg_pll_div"
                    /\ clocks'.sys_cpu_ahb_clk =
                            Some(clocks.main_clk \div (config.sys_cpu_ahb_div + 1))
        /\ (pc = "syscpuahbclkdiv_reqflag" /\ pc' # pc) =>
            /\ clocks.sys_cpu_ahb_clk = None
            /\ clocks'.sys_cpu_ahb_clk =
                    Some(clocks.main_clk \div (config.sys_cpu_ahb_div + 1))
            /\ writes' = writes
        /\ (pc' = "setup_system_clock" /\ pc # pc') =>
            /\ pc = "setup_main_clock"
            /\ is_ok(step_result)
            /\ clocks'.main_clk > 0 ]_vars

\* a call that follows a failed one finds the divider register already at 1 and
\* leaves it alone
C35_Witness ==
    /\ pc = "setup_frg_pll_div" /\ calls = 2
    /\ config.sys_cpu_ahb_div = 1 /\ regs.syscpuahbclkdiv = 1
    /\ ~wrote("SYSCPUAHBCLKDIV")
    /\ is_some(clocks.sys_cpu_ahb_clk)

----------------------------------------------------------------------------
(* Failed activations *)

\* a call that fails with BadConfiguration has left the hardware and the
\* registry as they were
failed_untouched(r) == r.res.tag = "BadConfiguration" => r.self = Self

\* C36: each ensure_<node>_active, called from any state of a bring-up, writes
\* no hardware register and leaves the registry unchanged when it fails with
\* BadConfiguration; and no bring-up whose 48/60 MHz selector is Off has written
\* the FFRO control register, whose update field is so never left in
\* update-safe mode
C36_FailedEnsureNoEffect ==
    /\ in_bring_up =>
        /\ failed_untouched(ensure_16mhz_irc_active(Self))
        /\ failed_untouched(ensure_48_60mhz_irc_active(Self))
        /\ failed_untouched(ensure_1mhz_lposc_active(Self))
        /\ failed_untouched(ensure_32kclk_active(Self))
        /\ failed_untouched(ensure_main_pll_clk_active(Self))
        /\ failed_untouched(ensure_clk_in_active(Self))
    /\ (config # NoArgs /\ config._48_60m_irc_select = "Off") =>
        /\ ~wrote("FFROCTL1.update")
        /\ last_written("FFROCTL1.update") # 1

----------------------------------------------------------------------------
(* The output dividers of the PLL *)

\* C37: for each of the four PLL outputs, once setup_pll_pfdN has recorded a
\* frequency, the DIV field the hardware was programmed with is the configured
\* output clock divider less one, and the recorded frequency is the PFD
\* frequency divided by that divisor (DIV + 1), the encoding the registry uses
\* for the CPU/AHB, FRG PLL and clock-out dividers
C37_RecordedAsProgrammed ==
    \A n \in 0..3 :
        ( /\ in_bring_up /\ pfd_valid(n) /\ is_some(pll_output_freq)
          /\ entered(pfd_pc(n))
          /\ pc \notin {pfd_pc(n), pfd_clkrdy_pc(n), pfd_reqflag_pc(n)}
          /\ is_some(pll_clk(clocks, n)) ) =>
            LET mp == unwrap(config.main_pll)
                pfd == floor_times18_over(unwrap(pll_output_freq), unwrap(pfd_div(mp, n)))
                DIV == last_written(pllclkdiv(n))
            IN  /\ DIV + 1 = pll_clock_divider(mp, n)
                /\ unwrap(pll_clk(clocks, n)) = pfd \div (DIV + 1)

----------------------------------------------------------------------------
(* The PLL input divided by two *)

\* C38: when the PLL input selector is _48_60MIrcDiv2, the core output that
\* setup_main_pll returns is (FFRO frequency / 2) x multiplier
C38_HalvedPllInput ==
    ( /\ in_bring_up /\ is_some(config.main_pll)
      /\ unwrap(config.main_pll).clock_select = "_48_60MIrcDiv2"
      /\ is_some(pll_output_freq) ) =>
        LET ffro == IF config._48_60m_irc_select = "Mhz48" THEN 48000000 ELSE 60000000
        IN  unwrap(pll_output_freq) = (ffro \div 2) * unwrap(config.main_pll).multiplier

----------------------------------------------------------------------------
(* Where ClockError::Programming comes from *)

\* C39: a bring-up returns ClockError::Programming exactly when it has got as
\* far as setup_clock_out, clk_out_div is Some and clk_out_select is DspMainClk
\* or AudioPllClk; it never returns "main_clk not configured" nor "We should
\* have set clk_in by now", because clk_in is recorded whenever setup_main_pll
\* runs and main_clk is not 0 whenever setup_system_clock runs
C39_ProgrammingOnlyFromClockOut ==
    /\ (pc = "returned" /\ in_bring_up) =>
        /\ result.tag = "Programming" <=>
                /\ entered("setup_clock_out")
                /\ is_some(config.clk_out_div)
                /\ config.clk_out_select \in {"DspMainClk", "AudioPllClk"}
        /\ result.reason \notin {"main_clk not configured", "We should have set clk_in by now"}
    /\ pc = "setup_main_pll" => is_some(clocks.clk_in)
    /\ pc = "setup_system_clock" => clocks.main_clk # 0

\* every step up to the clock-out has succeeded, with a PLL fed from clk_in and
\* the CPU divider reprogrammed, and the audio PLL as clock-out source has ended
\* the call with the programming error
C39_Witness ==
    /\ pc = "returned" /\ result.tag = "Programming"
    /\ entered("setup_clock_out")
    /\ config.clk_out_select = "AudioPllClk" /\ is_some(config.clk_out_div)
    /\ wrote("SYSCPUAHBCLKDIV")
    /\ is_none(CLOCKS)

----------------------------------------------------------------------------
(* An init call after a failed one *)

\* the present call follows one that returned an error out of the bring-up
after_failed_call == calls >= 2 /\ in_bring_up

====
